---- MODULE Spec2Model ----
(***************************************************************************)
(* PQs notification bots: the ETA tracker (pq_monitor.py), its ledger      *)
(* (NotificationState), the row rules of PQMonitor._process_row and the    *)
(* cycle of PQMonitor.check_and_notify.                                    *)
(*                                                                         *)
(* Time is counted in units of TimeUnit seconds (8 hours) since            *)
(* 2025-12-08T00:00:00Z, which is Sunday 2025-12-07 16:00 at UTC-8.  Cell  *)
(* texts are strings; the string                                           *)
(* operations the code applies to them (strip, lower, strptime) are        *)
(* computed on the bounded universe of texts the model draws cells from.   *)
(***************************************************************************)
EXTENDS Integers, Sequences, FiniteSets, TLC

VARIABLES
    now,                    \* the wall clock, UTC, in time units
    sheet,                  \* the spreadsheet rows from START_ROW on (the row source)
    state,                  \* NotificationState.state: key -> stored timestamp
    pc,                     \* position of the process: "main" before PQMonitor(), then of
                            \* check_and_notify: "idle", "rows", "done"; "exited" at the end
    rows,                   \* check_and_notify: the fetched rows
    idx,                    \* check_and_notify: index of the next row of the loop
    is_weekend,             \* check_and_notify: local is_weekend
    should_notify_overdue,  \* check_and_notify: local should_notify_overdue
    overdue_items,          \* check_and_notify: dict user_id -> row numbers, insertion order
    posts,                  \* webhook POSTs of the current cycle, in order
    trail,                  \* ledger calls and gate visits of the current cycle, in order
    outcome,                \* how the current cycle ended: "completed", "no_data", or the
                            \* exception caught at line 410
    cycle,                  \* the current cycle: when it began, whether the sheet changed since
                            \* the fetch before, and the ledger and `cleared` it began with
    last,                   \* the cycle before the current one: when it began, its POSTs,
                            \* how it ended
    edited,                 \* whether the sheet was edited since the latest fetch
    cleared,                \* keys a cycle removed from the ledger and no cycle has marked since
    api,                    \* the last direct call of a NotificationState method
    env,                    \* the environment variables main() runs under
    exit_code,              \* "running", or the exit code of the process
    file                    \* notification_state.json on disk

vars == <<now, sheet, state, pc, rows, idx, is_weekend, should_notify_overdue,
          overdue_items, posts, trail, outcome, cycle, last, edited, cleared, api,
          env, exit_code, file>>

-----------------------------------------------------------------------------
(* Bounds of the model *)

MaxTime == 2
MaxRows == 2

(* Seconds per time unit: 8 hours *)
TimeUnit == 8 * 3600

(* Time units per day *)
DayUnits == (24 * 3600) \div TimeUnit

-----------------------------------------------------------------------------
(* config.py *)

USER_MAPPING ==
    [i \in {"CF", "DI", "JS", "RD", "CTC", "CC", "JC", "SR"} |->
        CASE i = "CF"  -> "U096E94CPSQ"
          [] i = "DI"  -> "U02S7HKMLEQ"
          [] i = "JS"  -> "U01UYJGCDT9"
          [] i = "RD"  -> "U07B2J0JQ04"
          [] i = "CTC" -> "U09E4C6S5GS"
          [] i = "CC"  -> "U01Q1DPP4UX"
          [] i = "JC"  -> "U0248V5LYV6"
          [] i = "SR"  -> "U02QMUE0ELV"]

COLUMN_C_INDEX == 2
COLUMN_D_INDEX == 3
COLUMN_E_INDEX == 4
COLUMN_F_INDEX == 5
COLUMN_G_INDEX == 6
START_ROW == 4

(* pq_monitor.py: defaults of NOTIFICATION_INTERVAL and OVERDUE_NOTIFICATION_INTERVAL *)
NOTIFICATION_INTERVAL == 28800
OVERDUE_NOTIFICATION_INTERVAL == 28800

(* PACIFIC_TZ = timezone(timedelta(hours=-8)), as an offset in seconds *)
PACIFIC_TZ == (0 - 8) * 3600

-----------------------------------------------------------------------------
(* Text operations on the universe of cell texts *)

(* str.strip() *)
Strip(s) ==
    CASE s = " DONE "      -> "DONE"
      [] s = " In Review " -> "In Review"
      [] s = " JS "        -> "JS"
      [] s = "  "          -> ""
      [] OTHER             -> s

(* str.lower() *)
Lower(s) ==
    CASE s = "Done"      -> "done"
      [] s = "DONE"      -> "done"
      [] s = "In Review" -> "in review"
      [] s = "IN REVIEW" -> "in review"
      [] s = "Open"      -> "open"
      [] OTHER           -> s

-----------------------------------------------------------------------------
(* Date texts as strptime sees them: digit runs, words (case-folded, since *)
(* strptime matches month names ignoring case) and the characters between. *)

Num(len, val) == [k |-> "num", len |-> len, val |-> val, s |-> ""]
Word(w) == [k |-> "word", len |-> 0, val |-> 0, s |-> w]
Lit(c) == [k |-> "lit", len |-> 0, val |-> 0, s |-> c]

Tokens(s) ==
    CASE s = "2025-12-05"   -> <<Num(4, 2025), Lit("-"), Num(2, 12), Lit("-"), Num(2, 5)>>
      [] s = "12/05/2025"   -> <<Num(2, 12), Lit("/"), Num(2, 5), Lit("/"), Num(4, 2025)>>
      [] s = "12/07/2025"   -> <<Num(2, 12), Lit("/"), Num(2, 7), Lit("/"), Num(4, 2025)>>
      [] s = "12/08/2025"   -> <<Num(2, 12), Lit("/"), Num(2, 8), Lit("/"), Num(4, 2025)>>
      [] s = "12/09/2025"   -> <<Num(2, 12), Lit("/"), Num(2, 9), Lit("/"), Num(4, 2025)>>
      [] s = "12/01/2025"   -> <<Num(2, 12), Lit("/"), Num(2, 1), Lit("/"), Num(4, 2025)>>
      [] s = "11/30/2025"   -> <<Num(2, 11), Lit("/"), Num(2, 30), Lit("/"), Num(4, 2025)>>
      [] s = "2025-11-30"   -> <<Num(4, 2025), Lit("-"), Num(2, 11), Lit("-"), Num(2, 30)>>
      [] s = "03/04/2025"   -> <<Num(2, 3), Lit("/"), Num(2, 4), Lit("/"), Num(4, 2025)>>
      [] s = "13/01/2025"   -> <<Num(2, 13), Lit("/"), Num(2, 1), Lit("/"), Num(4, 2025)>>
      [] s = "02/30/2025"   -> <<Num(2, 2), Lit("/"), Num(2, 30), Lit("/"), Num(4, 2025)>>
      [] s = "Dec 05, 2025" -> <<Word("dec"), Lit(" "), Num(2, 5), Lit(","), Lit(" "), Num(4, 2025)>>
      [] s = "not-a-date"   -> <<Word("not"), Lit("-"), Word("a"), Lit("-"), Word("date")>>
      [] OTHER              -> <<Word(s)>>

MonthAbbr == <<"jan", "feb", "mar", "apr", "may", "jun",
               "jul", "aug", "sep", "oct", "nov", "dec">>
MonthName == <<"january", "february", "march", "april", "may", "june",
               "july", "august", "september", "october", "november", "december">>

IndexOf(seq, x) ==
    IF \E i \in 1..Len(seq) : seq[i] = x
    THEN CHOOSE i \in 1..Len(seq) : seq[i] = x
    ELSE 0

IsLeap(y) == (y % 4 = 0 /\ y % 100 # 0) \/ y % 400 = 0

DaysInMonth(y, m) ==
    IF m = 2 THEN (IF IsLeap(y) THEN 29 ELSE 28)
    ELSE IF m \in {4, 6, 9, 11} THEN 30 ELSE 31

(* One directive of a strptime format against one token *)
DirectiveMatches(d, t) ==
    CASE d = "%Y" -> t.k = "num" /\ t.len = 4
      [] d = "%y" -> t.k = "num" /\ t.len = 2
      [] d = "%m" -> t.k = "num" /\ t.len \in {1, 2} /\ t.val \in 1..12
      [] d = "%d" -> t.k = "num" /\ t.len \in {1, 2} /\ t.val \in 1..31
      [] d = "%b" -> t.k = "word" /\ IndexOf(MonthAbbr, t.s) # 0
      [] d = "%B" -> t.k = "word" /\ IndexOf(MonthName, t.s) # 0
      [] OTHER    -> t.k = "lit" /\ t.s = d

NoDate == [ok |-> FALSE, y |-> 0, m |-> 0, d |-> 0]

(* datetime.strptime(text, fmt): the date, or NoDate where it raises ValueError *)
strptime(toks, fmt) ==
    IF Len(toks) # Len(fmt) \/ \E i \in 1..Len(fmt) : ~DirectiveMatches(fmt[i], toks[i])
    THEN NoDate
    ELSE
        LET At(d) == IF \E i \in 1..Len(fmt) : fmt[i] = d
                     THEN toks[CHOOSE i \in 1..Len(fmt) : fmt[i] = d]
                     ELSE Num(0, 0)
            Has(d) == \E i \in 1..Len(fmt) : fmt[i] = d
            y == IF Has("%Y") THEN At("%Y").val
                 ELSE IF At("%y").val < 69 THEN 2000 + At("%y").val
                 ELSE 1900 + At("%y").val
            m == IF Has("%m") THEN At("%m").val
                 ELSE IF Has("%b") THEN IndexOf(MonthAbbr, At("%b").s)
                 ELSE IndexOf(MonthName, At("%B").s)
            d == At("%d").val
        IN  IF y >= 1 /\ d <= DaysInMonth(y, m)
            THEN [ok |-> TRUE, y |-> y, m |-> m, d |-> d]
            ELSE NoDate

(* PQMonitor._is_date_in_past: date_formats, in the order tried *)
date_formats ==
    << <<"%Y", "-", "%m", "-", "%d">>,
       <<"%m", "/", "%d", "/", "%Y">>,
       <<"%m", "/", "%d", "/", "%y">>,
       <<"%d", "/", "%m", "/", "%Y">>,
       <<"%d", "/", "%m", "/", "%y">>,
       <<"%Y", "/", "%m", "/", "%d">>,
       <<"%b", " ", "%d", ",", " ", "%Y">>,
       <<"%B", " ", "%d", ",", " ", "%Y">>,
       <<"%d", " ", "%b", " ", "%Y">>,
       <<"%d", " ", "%B", " ", "%Y">> >>

(* The loop without its `break`: the last format that parses decides *)
ParseDateLast(date_str) ==
    LET toks == Tokens(Strip(date_str))
        hits == {i \in 1..Len(date_formats) : strptime(toks, date_formats[i]).ok}
    IN  IF hits = {} THEN NoDate
        ELSE strptime(toks, date_formats[CHOOSE i \in hits : \A j \in hits : i >= j])

(* The loop over date_formats: the first format that parses decides *)
ParseDate(date_str) ==
    LET toks == Tokens(Strip(date_str))
        hits == {i \in 1..Len(date_formats) : strptime(toks, date_formats[i]).ok}
    IN  IF hits = {} THEN NoDate
        ELSE strptime(toks, date_formats[CHOOSE i \in hits : \A j \in hits : i <= j])

(* datetime.now(PACIFIC_TZ): seconds of Pacific wall clock since 2025-12-08T00:00 *)
NowPacific(t) == t * TimeUnit + PACIFIC_TZ

(* Whole days of Pacific wall clock since 2025-12-08 (negative before it) *)
PacificDay(t) ==
    LET w == NowPacific(t)
    IN  IF w >= 0 THEN w \div 86400 ELSE 0 - ((86399 - w) \div 86400)

(* The date of the clock read in UTC *)
TodayUTC(t) ==
    [ok |-> TRUE, y |-> 2025, m |-> 12,
     d |-> 8 + (IF t >= 0 THEN t \div DayUnits ELSE 0 - ((DayUnits - 1 - t) \div DayUnits))]

(* now_pacific.date(): 2025-12-08 plus PacificDay, inside December 2025 *)
TodayPacific(t) == [ok |-> TRUE, y |-> 2025, m |-> 12, d |-> 8 + PacificDay(t)]

(* now_pacific.weekday(): Monday is 0; 2025-12-08 is a Monday *)
Weekday(t) == (14 + PacificDay(t)) % 7

DateBefore(a, b) ==
    \/ a.y < b.y
    \/ a.y = b.y /\ a.m < b.m
    \/ a.y = b.y /\ a.m = b.m /\ a.d < b.d

_is_date_in_past(date_str, t) ==
    IF date_str = "" THEN FALSE
    ELSE LET parsed_date == ParseDate(date_str)
         IN  IF ~parsed_date.ok THEN FALSE
             ELSE DateBefore(parsed_date, TodayPacific(t))

-----------------------------------------------------------------------------
(* NotificationState (pq_monitor.py) *)

(* A stored timestamp: the text isoformat() writes, as wall-clock seconds,  *)
(* whether the text carries a UTC offset, and that offset.                  *)
isoformat(local, aware, off) == [local |-> local, aware |-> aware, off |-> off]

(* The instant of a stored timestamp: fromisoformat, and PACIFIC_TZ for a   *)
(* text without an offset (all_hands_reminder.py, lines 72-77).             *)
InstantOf(stamp) ==
    IF stamp.aware THEN stamp.local - stamp.off ELSE stamp.local - PACIFIC_TZ

RowKey(row_number) == "row_" \o ToString(row_number)
InReviewKey(row_number) == "in_review_no_checker_" \o ToString(row_number)
overdue_batch_key == "overdue_batch"

(* That test with `>` in the place of `>=` *)
AllHands_should_notify_strict(st, key, interval_seconds, t) ==
    IF key \notin DOMAIN st THEN "True"
    ELSE IF t * TimeUnit - InstantOf(st[key]) > interval_seconds
         THEN "True" ELSE "False"

(* NotificationState.should_notify of all_hands_reminder.py (the body that  *)
(* pq_monitor.py keeps in comments)                                          *)
AllHands_should_notify(st, key, interval_seconds, t) ==
    IF key \notin DOMAIN st THEN "True"
    ELSE IF t * TimeUnit - InstantOf(st[key]) >= interval_seconds
         THEN "True" ELSE "False"

(* A should_notify that answers True for every key *)
should_notify_always(st, row_key, interval_seconds, t) == "True"

(* NotificationState.should_notify: its only statement is `return true`,    *)
(* and no name `true` exists in the module, so every call raises NameError. *)
should_notify(st, row_key, interval_seconds, t) == "NameError"

(* NotificationState.mark_notified: state[row_key] = now(PACIFIC_TZ).isoformat() *)
mark_notified(st, row_key, t) ==
    [k \in DOMAIN st \cup {row_key} |->
        IF k = row_key THEN isoformat(NowPacific(t), TRUE, PACIFIC_TZ) ELSE st[k]]

(* NotificationState.clear_row *)
clear_row(st, row_key) ==
    IF row_key \in DOMAIN st
    THEN [k \in DOMAIN st \ {row_key} |-> st[k]]
    ELSE st

(* json.dump(self.state, f): the JSON object written, one member per key *)
json_dump(st) == [kind |-> "json", members |-> {<<k, st[k]>> : k \in DOMAIN st}]

(* json.load(f) of a file that parses *)
json_load(f) ==
    [k \in {m[1] : m \in f.members} |-> (CHOOSE m \in f.members : m[1] = k)[2]]

NoFile == [kind |-> "missing", members |-> {}]

(* A file that exists and cannot be read or does not parse *)
CorruptFile == [kind |-> "corrupt", members |-> {}]

(* A _save_state that writes nothing *)
_save_state_skipped(st, f) == f

(* NotificationState._save_state: the file after it is written over f *)
_save_state(st, f) == json_dump(st)

(* NotificationState._load_state: {} for no file and for one that raises *)
_load_state(f) == IF f.kind = "json" THEN json_load(f) ELSE << >>

(* The file a running process has for its ledger: none before the first save *)
StoredAs(st) == IF st = << >> THEN NoFile ELSE json_dump(st)

-----------------------------------------------------------------------------
(* SlackNotifier (pq_monitor.py) *)

(* What one requests.post can come to: HTTP 200, another 2xx status that    *)
(* raise_for_status lets pass, or a RequestException.                       *)
WebhookResults == {"200", "204", "error"}

(* What send_notification and its siblings return for it *)
Success(result) == result = "200"

RECURSIVE Insert(_, _)
Insert(sorted, x) ==
    IF sorted = << >> THEN <<x>>
    ELSE IF x <= Head(sorted) THEN <<x>> \o sorted
    ELSE <<Head(sorted)>> \o Insert(Tail(sorted), x)

RECURSIVE Sorted(_)
Sorted(seq) == IF seq = << >> THEN << >> ELSE Insert(Sorted(Tail(seq)), Head(seq))

(* sep.join(parts) *)
RECURSIVE Join(_, _)
Join(parts, sep) ==
    IF parts = << >> THEN ""
    ELSE IF Len(parts) = 1 THEN parts[1]
    ELSE parts[1] \o sep \o Join(Tail(parts), sep)

(* ", ".join(str(r) for r in sorted(rows)) *)
rows_str(row_numbers) ==
    LET sorted_rows == Sorted(row_numbers)
    IN  Join([i \in 1..Len(sorted_rows) |-> ToString(sorted_rows[i])], ", ")

(* The line of one dict entry taken as if it held one row whatever it holds *)
MessagePartSingular(user_id, row_numbers) ==
    "<@" \o user_id \o "> Please update your PQs: row " \o ToString(row_numbers[1])
        \o " is out of date"

(* send_batched_overdue_notification, lines 214-218: the line of one entry *)
MessagePart(user_id, row_numbers) ==
    IF Len(row_numbers) = 1
    THEN "<@" \o user_id \o "> Please update your PQs: row " \o ToString(row_numbers[1])
            \o " is out of date"
    ELSE "<@" \o user_id \o "> Please update your PQs: rows " \o rows_str(row_numbers)
            \o " are out of date"

(* send_batched_overdue_notification: message_parts, one line per dict entry *)
MessageParts(items) ==
    [i \in 1..Len(items) |-> MessagePart(items[i].user_id, items[i].rows)]

Post(kind, user_id, row_number, parts, result, t) ==
    [kind |-> kind, user_id |-> user_id, row_number |-> row_number,
     parts |-> parts, result |-> result, t |-> t]

(* SlackNotifier.send_batched_overdue_notification: the POST it makes (none *)
(* for an empty dict) and what it returns                                    *)
send_batched_overdue_notification(items, result, t) ==
    IF items = << >>
    THEN [posts |-> << >>, success |-> TRUE]
    ELSE [posts |-> <<Post("overdue", "", 0, MessageParts(items), result, t)>>,
          success |-> Success(result)]

Event(ev, key, row_number, user_id) ==
    [ev |-> ev, key |-> key, row_number |-> row_number, user_id |-> user_id]

-----------------------------------------------------------------------------
(* PQMonitor._process_row *)

(* while len(row) < max(COLUMN_..._INDEX) + 1: row.append('') *)
RECURSIVE Pad(_)
Pad(row) == IF Len(row) < COLUMN_G_INDEX + 1 THEN Pad(Append(row, "")) ELSE row

(* row[COLUMN_X_INDEX].strip() if len(row) > COLUMN_X_INDEX else '' *)
Cell(row, index) == IF Len(row) > index THEN Strip(row[index + 1]) ELSE ""

(* The test of the initials without its last part, the exclusion of 'CC' *)
NotifiableWithIgnored(initials) ==
    initials # "" /\ initials \in DOMAIN USER_MAPPING

(* column_x_value and column_x_value in USER_MAPPING and column_x_value != 'CC' *)
Notifiable(initials) ==
    initials # "" /\ initials \in DOMAIN USER_MAPPING /\ initials # "CC"

(* `not is_weekend and should_notify(...)`: the call is made on weekdays only *)
NotifyGateOr(wk, sn) == IF wk THEN "True" ELSE sn

NotifyGate(wk, sn) == IF wk THEN "False" ELSE sn

(* The events of evaluating that expression *)
GateTrail(wk, key) == IF wk THEN << >> ELSE <<Event("should_notify", key, 0, "")>>

(* overdue_items[user_id].append(row_number), creating the list when absent *)
AddOverdue(items, user_id, row_number) ==
    IF \E i \in 1..Len(items) : items[i].user_id = user_id
    THEN [i \in 1..Len(items) |->
            IF items[i].user_id = user_id
            THEN [items[i] EXCEPT !.rows = Append(@, row_number)]
            ELSE items[i]]
    ELSE Append(items, [user_id |-> user_id, rows |-> <<row_number>>])

(* The running state of one call: the ledger, the batch, the POSTs made, the *)
(* events so far, and whether an exception is propagating.                   *)
Ctx(st, items, ps, tr, raised) ==
    [state |-> st, items |-> items, posts |-> ps, trail |-> tr, raised |-> raised]

(* A missing-ETA rule that forgets the row's key when the assignee cell     *)
(* names nobody it can notify                                                *)
EtaRuleForgets(c, row, row_number, wk, t, result) ==
    LET column_c_value == Cell(row, COLUMN_C_INDEX)
        column_e_value == Cell(row, COLUMN_E_INDEX)
        column_f_value == Cell(row, COLUMN_F_INDEX)
        row_key == RowKey(row_number)
    IN  IF c.raised THEN c
        ELSE IF column_e_value = "" /\ column_f_value = "" /\ Notifiable(column_c_value)
        THEN IF wk THEN c ELSE [c EXCEPT !.raised = TRUE]
        ELSE Ctx(clear_row(c.state, row_key), c.items, c.posts,
                 Append(c.trail, Event("clear", row_key, row_number, "")), FALSE)

(* Lines 429-453: the missing-ETA rule *)
EtaRule(c, row, row_number, wk, t, result) ==
    LET column_c_value == Cell(row, COLUMN_C_INDEX)
        column_e_value == Cell(row, COLUMN_E_INDEX)
        column_f_value == Cell(row, COLUMN_F_INDEX)
        row_key == RowKey(row_number)
        gate == NotifyGate(wk, should_notify(c.state, row_key, NOTIFICATION_INTERVAL, t))
        user_id == USER_MAPPING[column_c_value]
        tr == Append(c.trail, Event("eta_candidate", row_key, row_number, user_id))
                \o GateTrail(wk, row_key)
    IN  IF c.raised THEN c
        ELSE IF column_e_value = "" /\ column_f_value = ""
        THEN IF Notifiable(column_c_value)
             THEN IF gate = "NameError" THEN Ctx(c.state, c.items, c.posts, tr, TRUE)
                  ELSE IF gate = "True"
                  THEN IF Success(result)
                       THEN Ctx(mark_notified(c.state, row_key, t), c.items,
                                Append(c.posts, Post("eta", user_id, row_number, << >>, result, t)),
                                Append(tr, Event("mark", row_key, row_number, user_id)), FALSE)
                       ELSE Ctx(c.state, c.items,
                                Append(c.posts, Post("eta", user_id, row_number, << >>, result, t)),
                                tr, FALSE)
                  ELSE Ctx(c.state, c.items, c.posts, tr, FALSE)
             ELSE c
        ELSE Ctx(clear_row(c.state, row_key), c.items, c.posts,
                 Append(c.trail, Event("clear", row_key, row_number, "")), FALSE)

(* Lines 456-479: who the overdue rule would notify for the row, "" for nobody *)
OverdueInitialsAlsoDone(row, t) ==
    LET column_c_value == Cell(row, COLUMN_C_INDEX)
        column_d_value == Cell(row, COLUMN_D_INDEX)
        column_e_value == Cell(row, COLUMN_E_INDEX)
        column_g_value == Cell(row, COLUMN_G_INDEX)
    IN  IF column_e_value # "" /\ _is_date_in_past(column_e_value, t)
        THEN IF Lower(column_g_value) = "in review"
             THEN IF Notifiable(column_d_value) THEN column_d_value ELSE ""
             ELSE IF Notifiable(column_c_value) THEN column_c_value ELSE ""
        ELSE ""

OverdueInitialsAssignee(row, t) ==
    LET column_c_value == Cell(row, COLUMN_C_INDEX)
        column_e_value == Cell(row, COLUMN_E_INDEX)
        column_g_value == Cell(row, COLUMN_G_INDEX)
    IN  IF column_e_value # "" /\ _is_date_in_past(column_e_value, t)
        THEN IF Lower(column_g_value) # "done"
             THEN IF Notifiable(column_c_value) THEN column_c_value ELSE ""
             ELSE ""
        ELSE ""

OverdueInitials(row, t) ==
    LET column_c_value == Cell(row, COLUMN_C_INDEX)
        column_d_value == Cell(row, COLUMN_D_INDEX)
        column_e_value == Cell(row, COLUMN_E_INDEX)
        column_g_value == Cell(row, COLUMN_G_INDEX)
    IN  IF column_e_value # "" /\ _is_date_in_past(column_e_value, t)
        THEN IF Lower(column_g_value) = "in review"
             THEN IF Notifiable(column_d_value) THEN column_d_value ELSE ""
             ELSE IF Lower(column_g_value) \notin {"done", "in review"}
             THEN IF Notifiable(column_c_value) THEN column_c_value ELSE ""
             ELSE ""
        ELSE ""

(* An overdue rule that puts a row in review on its assignee's list as well *)
(* as on its reviewer's                                                      *)
OverdueRuleBoth(c, row, row_number, sno, t) ==
    LET initials == OverdueInitials(row, t)
        user_id == USER_MAPPING[initials]
        column_c_value == Cell(row, COLUMN_C_INDEX)
        tr == Append(c.trail, Event("overdue_candidate", "", row_number, user_id))
        items == AddOverdue(c.items, user_id, row_number)
    IN  IF c.raised \/ initials = "" THEN c
        ELSE IF sno
        THEN Ctx(c.state,
                 IF Lower(Cell(row, COLUMN_G_INDEX)) = "in review" /\ Notifiable(column_c_value)
                 THEN AddOverdue(items, USER_MAPPING[column_c_value], row_number)
                 ELSE items,
                 c.posts, tr, FALSE)
        ELSE Ctx(c.state, c.items, c.posts, tr, FALSE)

(* Lines 455-479: the overdue rule *)
OverdueRule(c, row, row_number, sno, t) ==
    LET initials == OverdueInitials(row, t)
        user_id == USER_MAPPING[initials]
        tr == Append(c.trail, Event("overdue_candidate", "", row_number, user_id))
    IN  IF c.raised \/ initials = "" THEN c
        ELSE IF sno
        THEN Ctx(c.state, AddOverdue(c.items, user_id, row_number), c.posts, tr, FALSE)
        ELSE Ctx(c.state, c.items, c.posts, tr, FALSE)

(* Lines 481-509: the in-review-without-checker rule *)
InReviewRule(c, row, row_number, wk, t, result) ==
    LET column_c_value == Cell(row, COLUMN_C_INDEX)
        column_d_value == Cell(row, COLUMN_D_INDEX)
        column_g_value == Cell(row, COLUMN_G_INDEX)
        in_review_key == InReviewKey(row_number)
        gate == NotifyGate(wk, should_notify(c.state, in_review_key, NOTIFICATION_INTERVAL, t))
        user_id == USER_MAPPING[column_c_value]
        tr == Append(c.trail, Event("in_review_candidate", in_review_key, row_number, user_id))
                \o GateTrail(wk, in_review_key)
    IN  IF c.raised THEN c
        ELSE IF Lower(column_g_value) = "in review" /\ column_d_value = ""
        THEN IF Notifiable(column_c_value)
             THEN IF gate = "NameError" THEN Ctx(c.state, c.items, c.posts, tr, TRUE)
                  ELSE IF gate = "True"
                  THEN IF Success(result)
                       THEN Ctx(mark_notified(c.state, in_review_key, t), c.items,
                                Append(c.posts, Post("in_review", user_id, row_number, << >>, result, t)),
                                Append(tr, Event("mark", in_review_key, row_number, user_id)), FALSE)
                       ELSE Ctx(c.state, c.items,
                                Append(c.posts, Post("in_review", user_id, row_number, << >>, result, t)),
                                tr, FALSE)
                  ELSE Ctx(c.state, c.items, c.posts, tr, FALSE)
             ELSE c
        ELSE Ctx(clear_row(c.state, in_review_key), c.items, c.posts,
                 Append(c.trail, Event("clear", in_review_key, row_number, "")), FALSE)

(* A _process_row without lines 415-417 and without the length tests of    *)
(* lines 419-423: row[COLUMN_G_INDEX] of a short row raises IndexError      *)
_process_row_strict(c, row, row_number, sno, wk, t, result1, result3) ==
    LET c0 == [c EXCEPT !.trail = Append(@, Event("row", "", row_number, ""))]
        c1 == EtaRule(c0, row, row_number, wk, t, result1)
        c2 == OverdueRule(c1, row, row_number, sno, t)
    IN  IF Len(row) < COLUMN_G_INDEX + 1 THEN [c0 EXCEPT !.raised = TRUE]
        ELSE InReviewRule(c2, row, row_number, wk, t, result3)

(* PQMonitor._process_row: the three rules in order, on the padded row *)
_process_row(c, row, row_number, sno, wk, t, result1, result3) ==
    LET padded == Pad(row)
        c0 == [c EXCEPT !.trail = Append(@, Event("row", "", row_number, ""))]
        c1 == EtaRule(c0, padded, row_number, wk, t, result1)
        c2 == OverdueRule(c1, padded, row_number, sno, t)
    IN  InReviewRule(c2, padded, row_number, wk, t, result3)

-----------------------------------------------------------------------------
(* The row source: sheets the model reads *)

Row(c, d, e, f, g) == <<"", "", c, d, e, f, g>>

(* Rows the sheet of Spec is built from, one or more per branch of the rules *)
RowChoices ==
    { Row("JS", "", "", "", "In Review"),
      Row("CC", "", "", "", "In Review"),
      Row("JS", "", "", "n/a", "In Review"),
      Row("JS", "DI", "2025-12-05", "", " In Review "),
      Row("DI", "JS", "12/07/2025", "", "Open"),
      Row("DI", "JS", "2025-12-05", "", " DONE "),
      Row("JS", "ZZ", "Dec 05, 2025", "", "in review"),
      <<"", "", "JS">> }

(* Every row over the cell texts, for the specification of single rows *)
AssigneeTexts == {"", "JS", " JS ", "CC", "ZZ"}
ReviewerTexts == {"", "DI", "CC", "ZZ"}
EtaTexts == {"", "2025-12-05", "12/07/2025", "12/08/2025", "Dec 05, 2025", "not-a-date"}
FlagTexts == {"", "n/a"}
StatusTexts == {"", "Done", " DONE ", "In Review", "in review", "Open"}

AllRows ==
    { Row(c, d, e, f, g) : c \in AssigneeTexts, d \in ReviewerTexts, e \in EtaTexts,
                           f \in FlagTexts, g \in StatusTexts }

RowNumbers == START_ROW..(START_ROW + MaxRows - 1)

Keys == {RowKey(n) : n \in RowNumbers} \cup {InReviewKey(n) : n \in RowNumbers}
            \cup {overdue_batch_key}

(* Ledger files a start can find: none, one written a day before the clock  *)
(* starts, and one written four hours before it by a version that stored    *)
(* timestamps without an offset.                                            *)
InitLedgers ==
    { << >>,
      [k \in {RowKey(START_ROW), InReviewKey(START_ROW), overdue_batch_key} |->
          isoformat(PACIFIC_TZ - 86400, TRUE, PACIFIC_TZ)],
      [k \in {RowKey(START_ROW), overdue_batch_key} |->
          isoformat(PACIFIC_TZ - 4 * 3600, FALSE, 0)] }

(* The environment of a process that got through PQMonitor() and runs        *)
(* run_continuous                                                            *)
ContinuousEnv ==
    [SLACK_WEBHOOK_URL |-> TRUE, SPREADSHEET_ID |-> TRUE,
     GOOGLE_CREDENTIALS_PATH |-> "file", GOOGLE_CREDENTIALS_JSON |-> "", RUN_ONCE |-> FALSE]

NoCycle == [start |-> 0 - 1, changed |-> FALSE, ledger |-> << >>, cleared |-> {}]
NoLast == [start |-> 0 - 1, posts |-> << >>, outcome |-> "none"]
NoApi == [op |-> "none", key |-> "", interval |-> 0, result |-> "", all_hands |-> "", at |-> 0,
          held |-> FALSE, age |-> 0, before |-> "none", before_key |-> "", before_at |-> 0]

Init ==
    /\ now = 0
    /\ sheet = << >>
    /\ state \in InitLedgers
    /\ pc = "idle"
    /\ rows = << >>
    /\ idx = 1
    /\ is_weekend = FALSE
    /\ should_notify_overdue = FALSE
    /\ overdue_items = << >>
    /\ posts = << >>
    /\ trail = << >>
    /\ outcome = "none"
    /\ cycle = NoCycle
    /\ last = NoLast
    /\ edited = FALSE
    /\ cleared = {}
    /\ api = NoApi
    /\ env = ContinuousEnv
    /\ exit_code = "running"
    /\ file = StoredAs(state)

-----------------------------------------------------------------------------
(* The environment: the clock and the people editing the sheet.  A cycle    *)
(* sees the sheet only through its fetch, so the sheet between two fetches  *)
(* is rebuilt row by row from its end.                                       *)

Tick ==
    /\ pc = "idle"
    /\ now < MaxTime
    /\ now' = now + 1
    /\ UNCHANGED <<sheet, state, pc, rows, idx, is_weekend, should_notify_overdue,
                   overdue_items, posts, trail, outcome, cycle, last, edited, cleared, api,
                   env, exit_code, file>>

AddRow ==
    /\ pc = "idle"
    /\ Len(sheet) < MaxRows
    /\ \E r \in RowChoices : sheet' = Append(sheet, r)
    /\ edited' = TRUE
    /\ UNCHANGED <<now, state, pc, rows, idx, is_weekend, should_notify_overdue,
                   overdue_items, posts, trail, outcome, cycle, last, cleared, api,
                   env, exit_code, file>>

DeleteRow ==
    /\ pc = "idle"
    /\ Len(sheet) > 0
    /\ sheet' = SubSeq(sheet, 1, Len(sheet) - 1)
    /\ edited' = TRUE
    /\ UNCHANGED <<now, state, pc, rows, idx, is_weekend, should_notify_overdue,
                   overdue_items, posts, trail, outcome, cycle, last, cleared, api,
                   env, exit_code, file>>

-----------------------------------------------------------------------------
(* PQMonitor.check_and_notify *)

(* Lines 357-394: the clock, the fetch, the empty-sheet return and the      *)
(* overdue gate.  An exception (the fetch's HttpError, the gate's NameError)*)
(* is caught at line 410 and ends the cycle.                                *)
StartCycle ==
    /\ pc = "idle"
    /\ \E fetch \in {"ok", "HttpError"} :
        LET wk == Weekday(now) \in {5, 6}
            gate == NotifyGate(wk, should_notify(state, overdue_batch_key,
                                                 OVERDUE_NOTIFICATION_INTERVAL, now))
            tr == GateTrail(wk, overdue_batch_key)
        IN  /\ is_weekend' = wk
            /\ cycle' = [start |-> now, changed |-> edited, ledger |-> state,
                          cleared |-> cleared]
            /\ posts' = << >>
            /\ overdue_items' = << >>
            /\ idx' = 1
            /\ IF fetch = "HttpError"
               THEN /\ rows' = << >>
                    /\ trail' = << >>
                    /\ should_notify_overdue' = FALSE
                    /\ outcome' = "HttpError"
                    /\ pc' = "done"
                    /\ edited' = edited
               ELSE /\ rows' = sheet
                    /\ edited' = FALSE
                    /\ IF sheet = << >>
                       THEN /\ trail' = << >>
                            /\ should_notify_overdue' = FALSE
                            /\ outcome' = "no_data"
                            /\ pc' = "done"
                       ELSE /\ trail' = tr
                            /\ should_notify_overdue' = (gate = "True")
                            /\ IF gate = "NameError"
                               THEN outcome' = "NameError" /\ pc' = "done"
                               ELSE outcome' = "running" /\ pc' = "rows"
    /\ UNCHANGED <<now, sheet, state, last, cleared, api, env, exit_code, file>>

(* The keys removed from the ledger and not marked since, after a step that *)
(* took the ledger from st to st2.                                           *)
StillCleared(was, st, st2) ==
    (was \cup (DOMAIN st \ DOMAIN st2))
        \ {k \in DOMAIN st2 : k \notin DOMAIN st \/ st2[k] # st[k]}

(* Lines 397-399: one turn of the loop, the whole of _process_row for the   *)
(* row.  An exception leaves the loop and the function through line 410.    *)
ProcessRow ==
    /\ pc = "rows"
    /\ idx <= Len(rows)
    /\ \E result1 \in WebhookResults, result3 \in WebhookResults :
        \E c \in {_process_row(Ctx(state, overdue_items, posts, trail, FALSE), rows[idx],
                              START_ROW + (idx - 1), should_notify_overdue, is_weekend,
                              now, result1, result3)} :
            /\ state' = c.state
            /\ file' = IF c.state # state THEN _save_state(c.state, file) ELSE file
            /\ cleared' = StillCleared(cleared, state, c.state)
            /\ overdue_items' = c.items
            /\ posts' = c.posts
            /\ trail' = c.trail
            /\ IF c.raised
               THEN idx' = idx /\ outcome' = "NameError" /\ pc' = "done"
               ELSE idx' = idx + 1 /\ outcome' = outcome /\ pc' = pc
    /\ UNCHANGED <<now, sheet, rows, is_weekend, should_notify_overdue, cycle, last,
                   edited, api, env, exit_code>>

(* The batch step taken at any turn of the loop, not after it *)
FinishCycleEarly ==
    /\ pc = "rows"
    /\ \E result \in WebhookResults :
        IF overdue_items # << >> /\ should_notify_overdue
        THEN /\ posts' = Append(posts, Post("overdue", "", 0, MessageParts(overdue_items),
                                            result, now))
             /\ IF Success(result)
                THEN /\ state' = mark_notified(state, overdue_batch_key, now)
                     /\ cleared' = cleared \ {overdue_batch_key}
                     /\ trail' = Append(trail, Event("mark", overdue_batch_key, 0, ""))
                     /\ file' = _save_state(state', file)
                ELSE UNCHANGED <<state, cleared, trail, file>>
        ELSE UNCHANGED <<posts, state, cleared, trail, file>>
    /\ outcome' = "completed"
    /\ pc' = "done"
    /\ UNCHANGED <<now, sheet, rows, idx, is_weekend, should_notify_overdue,
                   overdue_items, cycle, last, edited, api, env, exit_code>>

(* Lines 401-408: the batch is sent once the loop is over *)
FinishCycle ==
    /\ pc = "rows"
    /\ idx > Len(rows)
    /\ \E result \in WebhookResults :
        IF overdue_items # << >> /\ should_notify_overdue
        THEN /\ posts' = Append(posts, Post("overdue", "", 0, MessageParts(overdue_items),
                                            result, now))
             /\ IF Success(result)
                THEN /\ state' = mark_notified(state, overdue_batch_key, now)
                     /\ cleared' = cleared \ {overdue_batch_key}
                     /\ trail' = Append(trail, Event("mark", overdue_batch_key, 0, ""))
                     /\ file' = _save_state(state', file)
                ELSE UNCHANGED <<state, cleared, trail, file>>
        ELSE UNCHANGED <<posts, state, cleared, trail, file>>
    /\ outcome' = "completed"
    /\ pc' = "done"
    /\ UNCHANGED <<now, sheet, rows, idx, is_weekend, should_notify_overdue,
                   overdue_items, cycle, last, edited, api, env, exit_code>>

(* check_and_notify returns to the loop of run_continuous: its locals are   *)
(* gone; what the cycle posted is remembered as the previous cycle's.       *)
Return ==
    /\ pc = "done"
    /\ ~env.RUN_ONCE
    /\ pc' = "idle"
    /\ last' = [start |-> cycle.start, posts |-> posts, outcome |-> outcome]
    /\ cycle' = NoCycle
    /\ rows' = << >>
    /\ idx' = 1
    /\ is_weekend' = FALSE
    /\ should_notify_overdue' = FALSE
    /\ overdue_items' = << >>
    /\ posts' = << >>
    /\ trail' = << >>
    /\ outcome' = "none"
    /\ UNCHANGED <<now, sheet, state, edited, cleared, api, env, exit_code, file>>

Next ==
    \/ Tick
    \/ AddRow
    \/ DeleteRow
    \/ StartCycle
    \/ ProcessRow
    \/ FinishCycle
    \/ Return

Spec == Init /\ [][Next]_vars

-----------------------------------------------------------------------------
(* NotificationState called directly, method by method *)

ApiKeys == {RowKey(START_ROW), overdue_batch_key}
Intervals == {0, NOTIFICATION_INTERVAL, 2 * NOTIFICATION_INTERVAL}

(* The record of one call: what was asked, when, what came back from the    *)
(* ETA tracker's method and from the all-hands reminder's, whether the      *)
(* ledger held the key and how old its timestamp was, and the call before.  *)
Call(op, key, interval, result, all_hands) ==
    [op |-> op, key |-> key, interval |-> interval, result |-> result,
     all_hands |-> all_hands, at |-> now,
     held |-> key \in DOMAIN state,
     age |-> IF key \in DOMAIN state THEN now * TimeUnit - InstantOf(state[key]) ELSE 0,
     before |-> api.op, before_key |-> api.key, before_at |-> api.at]

ApiShouldNotify ==
    /\ \E key \in ApiKeys, interval_seconds \in Intervals :
          api' = Call("should_notify", key, interval_seconds,
                      should_notify(state, key, interval_seconds, now),
                      AllHands_should_notify(state, key, interval_seconds, now))
    /\ UNCHANGED <<now, sheet, state, pc, rows, idx, is_weekend, should_notify_overdue,
                   overdue_items, posts, trail, outcome, cycle, last, edited, cleared,
                   env, exit_code, file>>

ApiMarkNotified ==
    /\ \E key \in ApiKeys :
          /\ state' = mark_notified(state, key, now)
          /\ file' = _save_state(state', file)
          /\ api' = Call("mark_notified", key, 0, "None", "None")
    /\ UNCHANGED <<now, sheet, pc, rows, idx, is_weekend, should_notify_overdue,
                   overdue_items, posts, trail, outcome, cycle, last, edited, cleared,
                   env, exit_code>>

ApiClearRow ==
    /\ \E key \in ApiKeys :
          /\ state' = clear_row(state, key)
          /\ file' = IF key \in DOMAIN state THEN _save_state(state', file) ELSE file
          /\ api' = Call("clear_row", key, 0, "None", "None")
    /\ UNCHANGED <<now, sheet, pc, rows, idx, is_weekend, should_notify_overdue,
                   overdue_items, posts, trail, outcome, cycle, last, edited, cleared,
                   env, exit_code>>

NextLedger ==
    \/ Tick
    \/ ApiShouldNotify
    \/ ApiMarkNotified
    \/ ApiClearRow

SpecLedger == Init /\ [][NextLedger]_vars

-----------------------------------------------------------------------------
(* One cycle over a sheet of one row, for every row over the cell texts and *)
(* for clocks from Friday to Monday.                                        *)

RowClock == {0 - 2 * DayUnits, 0 - DayUnits, 0, 1}

InitRow ==
    /\ now \in RowClock
    /\ sheet \in {<<r>> : r \in AllRows}
    /\ state \in InitLedgers
    /\ pc = "idle"
    /\ rows = << >>
    /\ idx = 1
    /\ is_weekend = FALSE
    /\ should_notify_overdue = FALSE
    /\ overdue_items = << >>
    /\ posts = << >>
    /\ trail = << >>
    /\ outcome = "none"
    /\ cycle = NoCycle
    /\ last = NoLast
    /\ edited = FALSE
    /\ cleared = {}
    /\ api = NoApi
    /\ env = ContinuousEnv
    /\ exit_code = "running"
    /\ file = StoredAs(state)

NextRow ==
    \/ StartCycle
    \/ ProcessRow
    \/ FinishCycle
    \/ Return

SpecRow == InitRow /\ [][NextRow]_vars

-----------------------------------------------------------------------------
(* The ledger across restarts of the process: mark_notified and clear_row,  *)
(* each with its save, a new process loading the file, and the file being   *)
(* damaged or removed from outside.                                          *)

InitPersist ==
    /\ now = 0
    /\ sheet = << >>
    /\ state \in InitLedgers
    /\ pc = "idle"
    /\ rows = << >>
    /\ idx = 1
    /\ is_weekend = FALSE
    /\ should_notify_overdue = FALSE
    /\ overdue_items = << >>
    /\ posts = << >>
    /\ trail = << >>
    /\ outcome = "none"
    /\ cycle = NoCycle
    /\ last = NoLast
    /\ edited = FALSE
    /\ cleared = {}
    /\ api = NoApi
    /\ env = ContinuousEnv
    /\ exit_code = "running"
    /\ file \in (IF state = << >> THEN {NoFile, CorruptFile} ELSE {json_dump(state)})

(* The process ends and a new one is started: NotificationState.__init__    *)
(* loads the file (lines 50-63); an unreadable file is logged, not raised.  *)
Restart ==
    /\ pc = "idle"
    /\ state' = _load_state(file)
    /\ api' = Call("_load_state", "", 0, "None", "None")
    /\ UNCHANGED <<now, sheet, pc, rows, idx, is_weekend, should_notify_overdue,
                   overdue_items, posts, trail, outcome, cycle, last, edited, cleared,
                   env, exit_code, file>>

(* The file is truncated, overwritten with something that is no JSON, or    *)
(* made unreadable                                                           *)
DamageFile ==
    /\ file.kind = "json"
    /\ file' = CorruptFile
    /\ UNCHANGED <<now, sheet, state, pc, rows, idx, is_weekend, should_notify_overdue,
                   overdue_items, posts, trail, outcome, cycle, last, edited, cleared, api,
                   env, exit_code>>

NextPersist ==
    \/ Tick
    \/ ApiMarkNotified
    \/ ApiClearRow
    \/ Restart
    \/ DamageFile

SpecPersist == InitPersist /\ [][NextPersist]_vars

-----------------------------------------------------------------------------
(* One cycle over one sheet that holds every row over a universe of cell    *)
(* texts: every assignee, reviewer, ETA, flag and status of the lists, in   *)
(* every combination, one row each.                                          *)

SheetAssignees == <<"", "JS", "CC", "ZZ">>
SheetReviewers == <<"", "DI", "CC", "ZZ">>
SheetEtas == <<"", "2025-12-05", "12/08/2025">>
SheetFlags == <<"", "n/a">>
SheetStatuses == <<"Done", "In Review", "Open">>

UniverseSheet ==
    [k \in 1..(Len(SheetAssignees) * Len(SheetReviewers) * Len(SheetEtas)
                  * Len(SheetFlags) * Len(SheetStatuses)) |->
        LET n0 == k - 1
            n1 == n0 \div Len(SheetAssignees)
            n2 == n1 \div Len(SheetReviewers)
            n3 == n2 \div Len(SheetEtas)
            n4 == n3 \div Len(SheetFlags)
        IN  Row(SheetAssignees[(n0 % Len(SheetAssignees)) + 1],
                SheetReviewers[(n1 % Len(SheetReviewers)) + 1],
                SheetEtas[(n2 % Len(SheetEtas)) + 1],
                SheetFlags[(n3 % Len(SheetFlags)) + 1],
                SheetStatuses[(n4 % Len(SheetStatuses)) + 1])]

InitSheet ==
    /\ now \in RowClock
    /\ sheet = UniverseSheet
    /\ state \in InitLedgers
    /\ pc = "idle"
    /\ rows = << >>
    /\ idx = 1
    /\ is_weekend = FALSE
    /\ should_notify_overdue = FALSE
    /\ overdue_items = << >>
    /\ posts = << >>
    /\ trail = << >>
    /\ outcome = "none"
    /\ cycle = NoCycle
    /\ last = NoLast
    /\ edited = FALSE
    /\ cleared = {}
    /\ api = NoApi
    /\ env = ContinuousEnv
    /\ exit_code = "running"
    /\ file = StoredAs(state)

SpecSheet == InitSheet /\ [][NextRow]_vars

-----------------------------------------------------------------------------
(* main(): the process from its start, under every environment, in          *)
(* continuous and in single-shot mode.  A setting that is unset or empty is *)
(* FALSE (or ""); RUN_ONCE stands for GITHUB_ACTIONS or RUN_ONCE being set. *)

EnvChoices ==
    [SLACK_WEBHOOK_URL : BOOLEAN, SPREADSHEET_ID : BOOLEAN,
     GOOGLE_CREDENTIALS_PATH : {"", "no_such_file", "file"},
     GOOGLE_CREDENTIALS_JSON : {"", "garbage", "json"},
     RUN_ONCE : BOOLEAN]

(* A _validate_config that lets every environment pass *)
_validate_config_skipped(e) == "ok"

(* PQMonitor._validate_config *)
_validate_config(e) ==
    IF ~e.SLACK_WEBHOOK_URL \/ ~e.SPREADSHEET_ID THEN "ValueError"
    ELSE IF e.GOOGLE_CREDENTIALS_PATH = "" /\ e.GOOGLE_CREDENTIALS_JSON = "" THEN "ValueError"
    ELSE "ok"

(* GoogleSheetsClient._authenticate: the JSON setting is tried first and is *)
(* not fallen back from; then the file, if it exists.                       *)
_authenticate(e) ==
    IF e.GOOGLE_CREDENTIALS_JSON # ""
    THEN IF e.GOOGLE_CREDENTIALS_JSON = "json" THEN "ok" ELSE "ValueError"
    ELSE IF e.GOOGLE_CREDENTIALS_PATH = "file" THEN "ok"
    ELSE "ValueError"

MainFiles == {NoFile, CorruptFile} \cup {json_dump(st) : st \in InitLedgers \ {<< >>}}

MainSheets ==
    { << >>,
      <<Row("JS", "", "", "", "In Review")>>,
      <<Row("DI", "JS", "12/07/2025", "", "Open")>>,
      <<Row("JS", "DI", "2025-12-05", "", " In Review "), <<"", "", "JS">> >> }

InitMain ==
    /\ now \in {0, 1}
    /\ sheet \in MainSheets
    /\ state = << >>
    /\ pc = "main"
    /\ rows = << >>
    /\ idx = 1
    /\ is_weekend = FALSE
    /\ should_notify_overdue = FALSE
    /\ overdue_items = << >>
    /\ posts = << >>
    /\ trail = << >>
    /\ outcome = "none"
    /\ cycle = NoCycle
    /\ last = NoLast
    /\ edited = FALSE
    /\ cleared = {}
    /\ api = NoApi
    /\ env \in EnvChoices
    /\ exit_code = "running"
    /\ file \in MainFiles

(* main, line 546: PQMonitor().  An exception of __init__ goes to line 553  *)
(* and sys.exit(1); NotificationState() is the last thing __init__ builds.  *)
Construct ==
    /\ pc = "main"
    /\ IF _validate_config(env) # "ok" \/ _authenticate(env) # "ok"
       THEN /\ pc' = "exited"
            /\ exit_code' = "1"
            /\ state' = state
       ELSE /\ pc' = "idle"
            /\ exit_code' = exit_code
            /\ state' = _load_state(file)
    /\ UNCHANGED <<now, sheet, rows, idx, is_weekend, should_notify_overdue, overdue_items,
                   posts, trail, outcome, cycle, last, edited, cleared, api, env, file>>

(* Whether check_and_notify lets the exception that ended its cycle out:    *)
(* line 410 catches every Exception, so it never does.                      *)
Propagates(how) == FALSE

(* run_once, lines 516-522, and the end of main: exit code 1 through line   *)
(* 555 if check_and_notify raised, else the interpreter's 0.                *)
RunOnceExit ==
    /\ pc = "done"
    /\ env.RUN_ONCE
    /\ pc' = "exited"
    /\ exit_code' = IF Propagates(outcome) THEN "1" ELSE "0"
    /\ UNCHANGED <<now, sheet, state, rows, idx, is_weekend, should_notify_overdue,
                   overdue_items, posts, trail, outcome, cycle, last, edited, cleared, api,
                   env, file>>

NextMain ==
    \/ Construct
    \/ StartCycle
    \/ ProcessRow
    \/ FinishCycle
    \/ Return
    \/ RunOnceExit

SpecMain == InitMain /\ [][NextMain]_vars

-----------------------------------------------------------------------------
(* SlackNotifier.send_batched_overdue_notification called on its own, on    *)
(* every dict of up to MaxBatch row numbers among two recipients.  The dict  *)
(* is built entry by entry as _process_row builds it, in any order of the   *)
(* row numbers (a cycle appends them in ascending order only).              *)

MaxBatch == 3

BatchUsers == {USER_MAPPING["JS"], USER_MAPPING["DI"]}
BatchRows == START_ROW..(START_ROW + MaxBatch - 1)

BatchAdd ==
    /\ \E user_id \in BatchUsers, row_number \in BatchRows :
          /\ \A i \in 1..Len(overdue_items) :
                \A j \in 1..Len(overdue_items[i].rows) : overdue_items[i].rows[j] # row_number
          /\ overdue_items' = AddOverdue(overdue_items, user_id, row_number)
    /\ posts' = << >>
    /\ UNCHANGED <<now, sheet, state, pc, rows, idx, is_weekend, should_notify_overdue,
                   trail, outcome, cycle, last, edited, cleared, api, env, exit_code, file>>

BatchSend ==
    /\ \E result \in WebhookResults :
          posts' = send_batched_overdue_notification(overdue_items, result, now).posts
    /\ UNCHANGED <<now, sheet, state, pc, rows, idx, is_weekend, should_notify_overdue,
                   overdue_items, trail, outcome, cycle, last, edited, cleared, api,
                   env, exit_code, file>>

NextBatch ==
    \/ BatchAdd
    \/ BatchSend

SpecBatch == Init /\ [][NextBatch]_vars

-----------------------------------------------------------------------------
(* An interrupt (SIGINT) in continuous mode.  KeyboardInterrupt is no        *)
(* Exception: neither line 410, nor _save_state's handler at line 70, nor   *)
(* the notifier's handlers catch it; it reaches line 536 of run_continuous, *)
(* which logs and returns, and main ends with exit code 0.                  *)

(* The file between open(self.state_file, 'w'), which cuts it to nothing,   *)
(* and the end of json.dump: empty, or a beginning of the JSON text.        *)
TruncatedFile == [kind |-> "truncated", members |-> {}]

(* The ledgers in memory that the step in progress goes through: the one it *)
(* starts with, then one per rule of _process_row that may change it (lines *)
(* 429-453 and 481-509), or the one after the batch is marked (line 406).   *)
LedgersOfStep(result1, result3) ==
    IF pc = "rows" /\ idx <= Len(rows)
    THEN LET padded == Pad(rows[idx])
             c0 == Ctx(state, overdue_items, posts, trail, FALSE)
             c1 == EtaRule(c0, padded, START_ROW + (idx - 1), is_weekend, now, result1)
             c2 == OverdueRule(c1, padded, START_ROW + (idx - 1), should_notify_overdue, now)
             c3 == InReviewRule(c2, padded, START_ROW + (idx - 1), is_weekend, now, result3)
         IN  <<state, c1.state, c3.state>>
    ELSE IF pc = "rows" /\ overdue_items # << >> /\ should_notify_overdue /\ Success(result1)
    THEN <<state, mark_notified(state, overdue_batch_key, now)>>
    ELSE <<state>>

(* The file once the k-th of these ledgers is in memory and saved *)
FileAfter(ledgers, k) ==
    LET changed == {j \in 2..k : ledgers[j] # ledgers[j - 1]}
    IN  IF changed = {} THEN file
        ELSE _save_state(ledgers[CHOOSE j \in changed : \A i \in changed : i <= j], file)

(* The interrupt arrives while the process sleeps (pc = "idle", line 535),  *)
(* in the fetch or between two rows, inside a row or the batch send, or     *)
(* inside a _save_state: after the open and before json.dump is through.    *)
(* An interrupt between a change of the ledger in memory and the open of    *)
(* its save leaves the same file as one before the change.                  *)
Interrupt ==
    /\ pc \in {"idle", "rows", "done"}
    /\ \E result1 \in WebhookResults, result3 \in WebhookResults :
        \E ledgers \in {LedgersOfStep(result1, result3)} :
            \E k \in 1..Len(ledgers), in_save \in BOOLEAN :
                /\ in_save => (k > 1 /\ ledgers[k] # ledgers[k - 1])
                /\ state' = ledgers[k]
                /\ file' = IF in_save THEN TruncatedFile ELSE FileAfter(ledgers, k)
    /\ pc' = "exited"
    /\ exit_code' = "0"
    /\ UNCHANGED <<now, sheet, rows, idx, is_weekend, should_notify_overdue, overdue_items,
                   posts, trail, outcome, cycle, last, edited, cleared, api, env>>

NextCancel ==
    \/ Tick
    \/ AddRow
    \/ DeleteRow
    \/ StartCycle
    \/ ProcessRow
    \/ FinishCycle
    \/ Return
    \/ Interrupt

SpecCancel == Init /\ [][NextCancel]_vars

-----------------------------------------------------------------------------
(* One cycle over sheets of two rows that differ in their ETA texts: every  *)
(* accepted way of writing a date, texts two formats accept, texts no       *)
(* format accepts, no text, and the dates around the day of the cycle.      *)

DateTexts == {"", "  ", "2025-12-05", "12/05/2025", "Dec 05, 2025", "03/04/2025",
              "12/07/2025", "12/08/2025", "12/09/2025", "13/01/2025", "02/30/2025",
              "not-a-date"}

(* Clocks of these cycles: every 8 hours from Saturday 16:00 to Monday      *)
(* 00:00 at UTC-8                                                            *)
DateClock == (0 - DayUnits)..1

InitDates ==
    /\ now \in DateClock
    /\ sheet \in {<<Row("JS", "DI", e1, "", "In Review"), Row("JS", "DI", e2, "", "Open")>> :
                     e1 \in DateTexts, e2 \in DateTexts}
    /\ state \in InitLedgers
    /\ pc = "idle"
    /\ rows = << >>
    /\ idx = 1
    /\ is_weekend = FALSE
    /\ should_notify_overdue = FALSE
    /\ overdue_items = << >>
    /\ posts = << >>
    /\ trail = << >>
    /\ outcome = "none"
    /\ cycle = NoCycle
    /\ last = NoLast
    /\ edited = FALSE
    /\ cleared = {}
    /\ api = NoApi
    /\ env = ContinuousEnv
    /\ exit_code = "running"
    /\ file = StoredAs(state)

SpecDates == InitDates /\ [][NextRow]_vars

-----------------------------------------------------------------------------
(* all_hands_reminder.py: the weekly reminder.  Every run is a process of   *)
(* its own: main() builds AllHandsReminder, which loads all_hands_state.json*)
(* (the variable `file`), and calls send_reminder once.  `posts` holds the  *)
(* POSTs of the run, `outcome` how it went, `last` the latest run whose     *)
(* send reported success, and `cycle.start` when the one before that began. *)

MaxWeeks == 2

(* send_reminder, lines 152 and 155 *)
weekly_reminder_key == "weekly_all_hands_reminder"
WEEKLY_INTERVAL == 604800

(* State files a run can find: none, an unreadable one, and one stamped     *)
(* four days before the clock starts, with and without a UTC offset.        *)
AllHandsFiles ==
    { NoFile, CorruptFile,
      json_dump([k \in {weekly_reminder_key} |->
                    isoformat(PACIFIC_TZ - 4 * 86400, TRUE, PACIFIC_TZ)]),
      json_dump([k \in {weekly_reminder_key} |->
                    isoformat(PACIFIC_TZ - 4 * 86400, FALSE, 0)]) }

InitAllHands ==
    /\ now = 0
    /\ sheet = << >>
    /\ state = << >>
    /\ pc = "main"
    /\ rows = << >>
    /\ idx = 1
    /\ is_weekend = FALSE
    /\ should_notify_overdue = FALSE
    /\ overdue_items = << >>
    /\ posts = << >>
    /\ trail = << >>
    /\ outcome = "none"
    /\ cycle = NoCycle
    /\ last = NoLast
    /\ edited = FALSE
    /\ cleared = {}
    /\ api = NoApi
    /\ env \in {ContinuousEnv, [ContinuousEnv EXCEPT !.SLACK_WEBHOOK_URL = FALSE]}
    /\ exit_code = "running"
    /\ file \in AllHandsFiles

(* main(), lines 176-183: AllHandsReminder() and send_reminder().  A missing*)
(* SLACK_WEBHOOK_URL raises ValueError (line 147) and exits 1.  A send that *)
(* returns False leads to sys.exit(1) at line 167, which the handlers at    *)
(* lines 171 and 181 let through.  mark_notified reads the clock anew, up   *)
(* to one time unit after should_notify read it.                            *)
AllHandsMain ==
    /\ pc = "main"
    /\ pc' = "exited"
    /\ IF ~env.SLACK_WEBHOOK_URL
       THEN /\ outcome' = "ValueError"
            /\ exit_code' = "1"
            /\ posts' = << >>
            /\ UNCHANGED <<now, state, file, last, cycle>>
       ELSE \E notification_state \in {_load_state(file)} :
            IF AllHands_should_notify(notification_state, weekly_reminder_key,
                                      WEEKLY_INTERVAL, now) = "True"
            THEN \E result \in WebhookResults, took \in {0, 1} :
                    /\ posts' = <<Post("all_hands", "", 0, << >>, result, now)>>
                    /\ now' = now + took
                    /\ IF Success(result)
                       THEN /\ state' = mark_notified(notification_state,
                                                      weekly_reminder_key, now')
                            /\ file' = _save_state(state', file)
                            /\ last' = [start |-> now, posts |-> posts', outcome |-> "sent"]
                            /\ cycle' = [NoCycle EXCEPT !.start = last.start]
                            /\ outcome' = "sent"
                            /\ exit_code' = "0"
                       ELSE /\ state' = notification_state
                            /\ outcome' = "failed"
                            /\ exit_code' = "1"
                            /\ UNCHANGED <<file, last, cycle>>
            ELSE /\ state' = notification_state
                 /\ posts' = << >>
                 /\ outcome' = "skipped"
                 /\ exit_code' = "0"
                 /\ UNCHANGED <<now, file, last, cycle>>
    /\ UNCHANGED <<sheet, rows, idx, is_weekend, should_notify_overdue, overdue_items,
                   trail, edited, cleared, api, env>>

(* The scheduler starts the next run: at once, 8 hours later, or 8 hours    *)
(* short of a week, a week, or 8 hours more than a week later.              *)
AllHandsSchedule ==
    /\ pc = "exited"
    /\ \E wait \in {0, 1, (WEEKLY_INTERVAL \div TimeUnit) - 1, WEEKLY_INTERVAL \div TimeUnit,
                    (WEEKLY_INTERVAL \div TimeUnit) + 1} :
          /\ now + wait <= MaxWeeks * (WEEKLY_INTERVAL \div TimeUnit)
          /\ now' = now + wait
    /\ pc' = "main"
    /\ exit_code' = "running"
    /\ state' = << >>
    /\ UNCHANGED <<sheet, rows, idx, is_weekend, should_notify_overdue, overdue_items,
                   posts, trail, outcome, cycle, last, edited, cleared, api, env, file>>

NextAllHands ==
    \/ AllHandsMain
    \/ AllHandsSchedule

SpecAllHands == InitAllHands /\ [][NextAllHands]_vars

-----------------------------------------------------------------------------
(* qu-monitor/qu_monitor.py: the digest of stale QUs.  Every run is a       *)
(* process of its own that got through QUMonitor() and calls                *)
(* check_and_notify once; the class keeps no state between runs and reads   *)
(* and writes no file.  Its USER_MAPPING (qu-monitor/config.py, lines 6-15) *)
(* is the mapping of config.py.  `sheet` holds columns A to C from row 1,   *)
(* `posts` the direct messages of the latest run, `last` the run before it. *)
(* datetime.now() is the clock of the machine, taken to run on UTC.         *)

IGNORED_INITIALS == {"AH", "CC"}
QU_COLUMN_B_INDEX == 1
QU_COLUMN_C_INDEX == 2
QU_START_ROW == 1
STALE_DAYS == 7

(* QUMonitor.parse_date: formats, in the order tried *)
formats ==
    << <<"%m", "/", "%d", "/", "%Y">>,
       <<"%Y", "-", "%m", "-", "%d">>,
       <<"%m", "-", "%d", "-", "%Y">>,
       <<"%d", "/", "%m", "/", "%Y">>,
       <<"%m", "/", "%d", "/", "%y">>,
       <<"%Y", "/", "%m", "/", "%d">> >>

(* QUMonitor.parse_date: None (NoDate) for no text and for text no format parses *)
parse_date(date_str) ==
    LET toks == Tokens(Strip(date_str))
        hits == {i \in 1..Len(formats) : strptime(toks, formats[i]).ok}
    IN  IF date_str = "" \/ hits = {} THEN NoDate
        ELSE strptime(toks, formats[CHOOSE i \in hits : \A j \in hits : i <= j])

(* QUMonitor.get_first_initials: initials_str.replace(',', ' ').split()[0]  *)
(* in upper case, '' for no text                                             *)
get_first_initials(initials_str) ==
    CASE initials_str = "js, DI" -> "JS"
      [] initials_str = "DI JS"  -> "DI"
      [] initials_str = "js"     -> "JS"
      [] OTHER                   -> initials_str

(* date.toordinal(): days since 0001-01-01, that day being 1 *)
toordinal(date) ==
    LET y1 == date.y - 1
        before == <<0, 31, 59, 90, 120, 151, 181, 212, 243, 273, 304, 334>>
    IN  y1 * 365 + (y1 \div 4) - (y1 \div 100) + (y1 \div 400)
          + before[date.m] + (IF date.m > 2 /\ IsLeap(date.y) THEN 1 ELSE 0) + date.d

(* date_obj < cutoff_date, lines 227-228 and 255: midnight of the date      *)
(* against the clock less STALE_DAYS days, both in seconds since            *)
(* 2025-12-08T00:00                                                          *)
IsStale(date_obj, t) ==
    (toordinal(date_obj) - toordinal([ok |-> TRUE, y |-> 2025, m |-> 12, d |-> 8])) * 86400
        < t * TimeUnit - STALE_DAYS * 86400

(* Lines 236-260 for one row: the initials whose count the row raises, ""   *)
(* for a row that raises none                                                *)
RECURSIVE QUPad(_)
QUPad(row) ==
    IF Len(row) < (IF QU_COLUMN_B_INDEX > QU_COLUMN_C_INDEX
                   THEN QU_COLUMN_B_INDEX ELSE QU_COLUMN_C_INDEX) + 1
    THEN QUPad(Append(row, "")) ELSE row

StaleInitials(row, t) ==
    LET padded == QUPad(row)
        initials_str == IF Len(padded) > QU_COLUMN_B_INDEX
                        THEN Strip(padded[QU_COLUMN_B_INDEX + 1]) ELSE ""
        date_str == IF Len(padded) > QU_COLUMN_C_INDEX
                    THEN Strip(padded[QU_COLUMN_C_INDEX + 1]) ELSE ""
        initials == get_first_initials(initials_str)
        date_obj == parse_date(date_str)
    IN  IF initials = "" \/ initials \in IGNORED_INITIALS THEN ""
        ELSE IF ~date_obj.ok THEN ""
        ELSE IF IsStale(date_obj, t) /\ initials \in DOMAIN USER_MAPPING THEN initials
        ELSE ""

(* A count that stays at 1 however many rows are counted *)
AddCountFlat(counts, initials) ==
    IF \E i \in 1..Len(counts) : counts[i].initials = initials
    THEN counts
    ELSE Append(counts, [initials |-> initials, count |-> 1])

(* stale_counts[initials] += 1 on the defaultdict, keys in insertion order *)
AddCount(counts, initials) ==
    IF \E i \in 1..Len(counts) : counts[i].initials = initials
    THEN [i \in 1..Len(counts) |->
            IF counts[i].initials = initials
            THEN [counts[i] EXCEPT !.count = @ + 1]
            ELSE counts[i]]
    ELSE Append(counts, [initials |-> initials, count |-> 1])

(* Lines 226-260: stale_counts after the loop over the rows *)
RECURSIVE stale_counts(_, _, _)
stale_counts(counts, qrows, t) ==
    IF qrows = << >> THEN counts
    ELSE LET initials == StaleInitials(Head(qrows), t)
         IN  stale_counts(IF initials = "" THEN counts ELSE AddCount(counts, initials),
                          Tail(qrows), t)

(* Line 268: the text of the direct message *)
StaleMessage(count) ==
    "Please reach out to " \o ToString(count) \o " stale QU" \o (IF count # 1 THEN "s" ELSE "")

(* SlackNotifier.send_dm: the call answers, or raises SlackApiError, which  *)
(* send_dm turns into False                                                  *)
SlackResults == {"ok", "SlackApiError"}

QURows ==
    { <<"QU-1", "JS", "11/30/2025">>,
      <<"QU-2", "js, DI", "2025-11-30">>,
      <<"QU-3", "DI", "12/01/2025">>,
      <<"QU-4", "CC", "11/30/2025">>,
      <<"QU-5", "ZZ", "11/30/2025">>,
      <<"QU-6", "JS", "12/05/2025">>,
      <<"QU-7", "DI", "not-a-date">>,
      <<"QU-8", "JS">>,
      <<"QU-9">> }

InitDigest ==
    /\ now = 0
    /\ sheet \in UNION {[1..n -> QURows] : n \in 0..MaxRows}
    /\ state = << >>
    /\ pc = "main"
    /\ rows = << >>
    /\ idx = 1
    /\ is_weekend = FALSE
    /\ should_notify_overdue = FALSE
    /\ overdue_items = << >>
    /\ posts = << >>
    /\ trail = << >>
    /\ outcome = "none"
    /\ cycle = NoCycle
    /\ last = NoLast
    /\ edited = FALSE
    /\ cleared = {}
    /\ api = NoApi
    /\ env = ContinuousEnv
    /\ exit_code = "running"
    /\ file = NoFile

(* QUMonitor.check_and_notify and the end of main: the fetch, whose         *)
(* HttpError is re-raised at line 283 and exits 1 through main; the count;  *)
(* one send_dm per counted initials, in the order of the dict.              *)
QUMain ==
    /\ pc = "main"
    /\ pc' = "exited"
    /\ last' = [start |-> cycle.start, posts |-> posts, outcome |-> outcome]
    /\ cycle' = [NoCycle EXCEPT !.start = now]
    /\ \E fetch \in {"ok", "HttpError"} :
        IF fetch = "HttpError"
        THEN /\ rows' = << >>
             /\ posts' = << >>
             /\ outcome' = "HttpError"
             /\ exit_code' = "1"
        ELSE /\ rows' = sheet
             /\ exit_code' = "0"
             /\ IF sheet = << >>
                THEN posts' = << >> /\ outcome' = "no_data"
                ELSE \E counts \in {stale_counts(<< >>, sheet, now)} :
                     \E results \in [1..Len(counts) -> SlackResults] :
                        /\ posts' = [i \in 1..Len(counts) |->
                                        Post("stale", USER_MAPPING[counts[i].initials], 0,
                                             <<StaleMessage(counts[i].count)>>,
                                             results[i], now)]
                        /\ outcome' = "completed"
    /\ UNCHANGED <<now, sheet, state, idx, is_weekend, should_notify_overdue, overdue_items,
                   trail, edited, cleared, api, env, file>>

(* The scheduler, or a person, starts the next run: at once or 8 hours later *)
QUSchedule ==
    /\ pc = "exited"
    /\ \E wait \in {0, 1} :
          /\ now + wait <= MaxTime
          /\ now' = now + wait
    /\ pc' = "main"
    /\ exit_code' = "running"
    /\ UNCHANGED <<sheet, state, rows, idx, is_weekend, should_notify_overdue, overdue_items,
                   posts, trail, outcome, cycle, last, edited, cleared, api, env, file>>

NextDigest ==
    \/ QUMain
    \/ QUSchedule

SpecDigest == InitDigest /\ [][NextDigest]_vars

-----------------------------------------------------------------------------
(* Short rows: the row source leaves out the empty cells at the end of a    *)
(* row.  One cycle of the ETA tracker over a sheet of one row cut to every  *)
(* length, on every clock and ledger of the single-row cycles; or runs of   *)
(* the digest over its rows cut likewise.                                    *)

(* row[:n] *)
CutTo(row, n) == SubSeq(row, 1, IF n < Len(row) THEN n ELSE Len(row))

InitRagged ==
    /\ \/ /\ pc = "idle"
          /\ now \in RowClock
          /\ sheet \in {<<CutTo(r, n)>> : r \in RowChoices, n \in 0..(COLUMN_G_INDEX + 1)}
          /\ state \in InitLedgers
       \/ /\ pc = "main"
          /\ now = 1
          /\ sheet \in {<<CutTo(r, n)>> : r \in QURows, n \in 0..(QU_COLUMN_C_INDEX + 1)}
          /\ state = << >>
    /\ rows = << >>
    /\ idx = 1
    /\ is_weekend = FALSE
    /\ should_notify_overdue = FALSE
    /\ overdue_items = << >>
    /\ posts = << >>
    /\ trail = << >>
    /\ outcome = "none"
    /\ cycle = NoCycle
    /\ last = NoLast
    /\ edited = FALSE
    /\ cleared = {}
    /\ api = NoApi
    /\ env = ContinuousEnv
    /\ exit_code = "running"
    /\ file = StoredAs(state)

NextRagged ==
    \/ StartCycle
    \/ ProcessRow
    \/ FinishCycle
    \/ Return
    \/ QUMain
    \/ QUSchedule

SpecRagged == InitRagged /\ [][NextRagged]_vars

-----------------------------------------------------------------------------
(* Continuous mode left to run over a sheet nobody edits, whose first row   *)
(* has no ETA, no flag and a known assignee.  The loop of run_continuous    *)
(* (lines 531-535) starts cycle after cycle and each cycle runs to its end; *)
(* the clock moves on from Sunday afternoon into Monday.                    *)

InitLive ==
    /\ now = 0
    /\ sheet \in { <<Row("JS", "", "", "", "Open")>>,
                   <<Row("JS", "", "", "", "In Review")>>,
                   <<Row("DI", "JS", "", "", "Open"), Row("DI", "JS", "12/07/2025", "", "Open")>>,
                   <<Row(" JS ", "", "", "", ""), <<"", "", "JS">> >> }
    /\ state \in InitLedgers
    /\ pc = "idle"
    /\ rows = << >>
    /\ idx = 1
    /\ is_weekend = FALSE
    /\ should_notify_overdue = FALSE
    /\ overdue_items = << >>
    /\ posts = << >>
    /\ trail = << >>
    /\ outcome = "none"
    /\ cycle = NoCycle
    /\ last = NoLast
    /\ edited = FALSE
    /\ cleared = {}
    /\ api = NoApi
    /\ env = ContinuousEnv
    /\ exit_code = "running"
    /\ file = StoredAs(state)

NextLive ==
    \/ Tick
    \/ StartCycle
    \/ ProcessRow
    \/ FinishCycle
    \/ Return

(* Line 397: the loop has a row left to take.  A turn of the loop is        *)
(* possible exactly then: _process_row is defined for every row and every   *)
(* answer of the webhook, and each turn adds the row's event to the trail.  *)
ProcessRowEnabled == pc = "rows" /\ idx <= Len(rows)

(* The process keeps running: the clock, the loop of run_continuous and     *)
(* each step of a cycle are weakly fair.  The fairness of the loop's turn   *)
(* is WF_vars(ProcessRow) written out, with ProcessRowEnabled for           *)
(* ENABLED <<ProcessRow>>_vars.                                             *)
SpecLive ==
    /\ InitLive
    /\ [][NextLive]_vars
    /\ WF_vars(Tick)
    /\ WF_vars(StartCycle)
    /\ ([]<>~ProcessRowEnabled \/ []<><<ProcessRow>>_vars)
    /\ WF_vars(FinishCycle)
    /\ WF_vars(Return)

-----------------------------------------------------------------------------
(* The loop of lines 397-399 and the batch block of lines 401-406 on their  *)
(* own, entered with should_notify_overdue as an input: _process_row is     *)
(* called row by row with the flag set or not on a weekday, and not set on  *)
(* a weekend, over every sheet of up to MaxRows rows.                        *)

InitFill ==
    /\ now \in {0, 1}
    /\ sheet \in UNION {[1..n -> RowChoices] : n \in 1..MaxRows}
    /\ state \in InitLedgers
    /\ pc = "rows"
    /\ rows = sheet
    /\ idx = 1
    /\ is_weekend = (Weekday(now) \in {5, 6})
    /\ should_notify_overdue \in (IF is_weekend THEN {FALSE} ELSE BOOLEAN)
    /\ overdue_items = << >>
    /\ posts = << >>
    /\ trail = << >>
    /\ outcome = "running"
    /\ cycle = [start |-> now, changed |-> FALSE, ledger |-> state, cleared |-> {}]
    /\ last = NoLast
    /\ edited = FALSE
    /\ cleared = {}
    /\ api = NoApi
    /\ env = ContinuousEnv
    /\ exit_code = "running"
    /\ file = StoredAs(state)

NextFill ==
    \/ ProcessRow
    \/ FinishCycle

SpecFill == InitFill /\ [][NextFill]_vars

-----------------------------------------------------------------------------
(* A start inside or outside the window of an overdue batch: the ledger     *)
(* file holds "overdue_batch" as mark_notified wrote it (line 93) after a   *)
(* batch that went out just now, four hours ago, one interval ago or a day  *)
(* ago, or does not hold it.  The clock starts on Sunday afternoon or at    *)
(* Monday 00:00, the day the ETA 12/07/2025 becomes a past date.            *)

SentAgo(t, seconds) == isoformat(NowPacific(t) - seconds, TRUE, PACIFIC_TZ)

WindowLedgers(t) ==
    { << >> } \cup
    { [k \in {overdue_batch_key} |-> SentAgo(t, s)] :
        s \in {0, 4 * 3600, OVERDUE_NOTIFICATION_INTERVAL, 86400} }

InitWindow ==
    /\ now \in {0, 1}
    /\ sheet = << >>
    /\ state \in WindowLedgers(now)
    /\ pc = "idle"
    /\ rows = << >>
    /\ idx = 1
    /\ is_weekend = FALSE
    /\ should_notify_overdue = FALSE
    /\ overdue_items = << >>
    /\ posts = << >>
    /\ trail = << >>
    /\ outcome = "none"
    /\ cycle = NoCycle
    /\ last = NoLast
    /\ edited = FALSE
    /\ cleared = {}
    /\ api = NoApi
    /\ env = ContinuousEnv
    /\ exit_code = "running"
    /\ file = StoredAs(state)

SpecWindow == InitWindow /\ [][Next]_vars

-----------------------------------------------------------------------------
(* Vocabulary of the properties *)

RowNumber(i) == START_ROW + (i - 1)

(* The row meets the missing-ETA rule: ETA and flag empty, assignee notifiable *)
EtaMatch(row) ==
    /\ Cell(Pad(row), COLUMN_E_INDEX) = ""
    /\ Cell(Pad(row), COLUMN_F_INDEX) = ""
    /\ Notifiable(Cell(Pad(row), COLUMN_C_INDEX))

(* The row meets the in-review rule: in review, no reviewer, assignee notifiable *)
InReviewMatch(row) ==
    /\ Lower(Cell(Pad(row), COLUMN_G_INDEX)) = "in review"
    /\ Cell(Pad(row), COLUMN_D_INDEX) = ""
    /\ Notifiable(Cell(Pad(row), COLUMN_C_INDEX))

PastEta(row) ==
    /\ Cell(Pad(row), COLUMN_E_INDEX) # ""
    /\ _is_date_in_past(Cell(Pad(row), COLUMN_E_INDEX), now)

Assignee(row) == USER_MAPPING[Cell(Pad(row), COLUMN_C_INDEX)]

(* POSTs of the current cycle of one kind for one row and recipient *)
PostsFor(kind, row_number, user_id) ==
    {i \in 1..Len(posts) : /\ posts[i].kind = kind
                           /\ posts[i].row_number = row_number
                           /\ posts[i].user_id = user_id}

OverduePosts == {i \in 1..Len(posts) : posts[i].kind = "overdue"}

Marks(key) == {i \in 1..Len(trail) : trail[i].ev = "mark" /\ trail[i].key = key}

(* Visits of the overdue rule's batch test (lines 461 and 472) for a row *)
Candidates(row_number) ==
    {i \in 1..Len(trail) : /\ trail[i].ev = "overdue_candidate"
                           /\ trail[i].row_number = row_number}

(* Batch entries that list a row *)
BatchEntries(row_number) ==
    {i \in 1..Len(overdue_items) :
        \E j \in 1..Len(overdue_items[i].rows) : overdue_items[i].rows[j] = row_number}

WeekendCycle == pc # "idle" /\ Weekday(cycle.start) \in {5, 6}
WeekdayCycleOver == pc = "done" /\ rows # << >> /\ Weekday(cycle.start) \notin {5, 6}
CycleGap == (cycle.start - last.start) * TimeUnit

-----------------------------------------------------------------------------
(* C1: at the end of a weekday cycle, every fetched row that meets the      *)
(* missing-ETA rule and whose key "row_<n>" was absent from the ledger when *)
(* the cycle began has had exactly one missing-ETA notification posted to   *)
(* its assignee.                                                             *)
C1_MissingEtaNotifiedOnce ==
    WeekdayCycleOver =>
        \A i \in 1..Len(rows) :
            (EtaMatch(rows[i]) /\ RowKey(RowNumber(i)) \notin DOMAIN cycle.ledger)
                => Cardinality(PostsFor("eta", RowNumber(i), Assignee(rows[i]))) = 1

C3_RetriggerAfterClear ==
    WeekdayCycleOver =>
        \A i \in 1..Len(rows) :
            (EtaMatch(rows[i]) /\ RowKey(RowNumber(i)) \in cycle.cleared)
                => PostsFor("eta", RowNumber(i), Assignee(rows[i])) # {}

(* C4: in a cycle whose day is Saturday or Sunday at UTC-8 nothing is       *)
(* posted and no ledger key is written: every key the ledger holds it held, *)
(* with the same timestamp, when the cycle began.                            *)
C4_WeekendSuppression ==
    WeekendCycle =>
        /\ posts = << >>
        /\ \A i \in 1..Len(trail) : trail[i].ev # "mark"
        /\ \A k \in DOMAIN state : k \in DOMAIN cycle.ledger /\ state[k] = cycle.ledger[k]

(* C4 witness: a weekend cycle ran to its end over a row that meets both    *)
(* per-row rules and whose key is older than the interval, and over a row   *)
(* the overdue rule picked a recipient for.                                  *)
C4_Witness ==
    /\ WeekendCycle /\ pc = "done" /\ outcome = "completed"
    /\ \E i \in 1..Len(rows) :
          /\ EtaMatch(rows[i]) /\ InReviewMatch(rows[i])
          /\ RowKey(RowNumber(i)) \in DOMAIN state
          /\ now * TimeUnit - InstantOf(state[RowKey(RowNumber(i))]) >= NOTIFICATION_INTERVAL
    /\ \E i \in 1..Len(rows) : Candidates(RowNumber(i)) # {}

(* C5: a per-row key is marked only after a POST for that row and rule came *)
(* back with success; and a weekday cycle that finds a row meeting a        *)
(* per-row rule with its key absent (as a failed delivery leaves it) has,   *)
(* at its end, posted the notification for it.                               *)
C5_MarkOnSuccessAndRetry ==
    /\ \A i \in 1..Len(trail) :
          (trail[i].ev = "mark" /\ trail[i].key # overdue_batch_key)
            => \E j \in 1..Len(posts) :
                  /\ posts[j].row_number = trail[i].row_number
                  /\ posts[j].kind = (IF trail[i].key = RowKey(trail[i].row_number)
                                      THEN "eta" ELSE "in_review")
                  /\ Success(posts[j].result)
    /\ WeekdayCycleOver =>
          \A i \in 1..Len(rows) :
              /\ (EtaMatch(rows[i]) /\ RowKey(RowNumber(i)) \notin DOMAIN cycle.ledger)
                    => \E j \in 1..Len(posts) :
                          posts[j].kind = "eta" /\ posts[j].row_number = RowNumber(i)
              /\ (InReviewMatch(rows[i]) /\ InReviewKey(RowNumber(i)) \notin DOMAIN cycle.ledger)
                    => \E j \in 1..Len(posts) :
                          posts[j].kind = "in_review" /\ posts[j].row_number = RowNumber(i)

(* What should_notify is to return: True exactly when the key is absent or  *)
(* its timestamp is at least the interval old.                               *)
Due == IF ~api.held \/ api.age >= api.interval THEN "True" ELSE "False"

(* C6: a call of should_notify, in the ETA tracker and in the all-hands     *)
(* reminder, returns (it does not raise), and returns True exactly when the *)
(* key is absent or its timestamp is at least the interval old.             *)
C6_ShouldNotifyContract ==
    api.op = "should_notify" => (api.result = Due /\ api.all_hands = Due)

(* The all-hands reminder's half of C6 taken alone *)
C6_AllHandsContract ==
    api.op = "should_notify" => api.all_hands = Due

(* C7: should_notify(k, I) right after mark_notified(k), with I larger than *)
(* the time elapsed since, returns False; should_notify(k, I) right after   *)
(* clear_row(k) returns True for every I.                                    *)
C7_LedgerRoundTrip ==
    (api.op = "should_notify" /\ api.before_key = api.key) =>
        /\ (api.before = "mark_notified" /\ api.interval > (api.at - api.before_at) * TimeUnit)
              => api.result = "False"
        /\ api.before = "clear_row" => api.result = "True"

(* C8: a fetched row whose ETA is a date before today and whose status,     *)
(* trimmed and lower-cased, is "done" is in no entry of the overdue batch,  *)
(* and the overdue rule never reaches the batch test for it.                 *)
C8_DoneNeverOverdue ==
    \A i \in 1..Len(rows) :
        (PastEta(rows[i]) /\ Lower(Cell(Pad(rows[i]), COLUMN_G_INDEX)) = "done")
            => BatchEntries(RowNumber(i)) = {} /\ Candidates(RowNumber(i)) = {}

(* C8 witness: a cycle ran to its end over a done row with a past ETA and   *)
(* an assignee that could have been notified.                                *)
C8_Witness ==
    /\ pc = "done" /\ outcome = "completed"
    /\ \E i \in 1..Len(rows) :
          /\ PastEta(rows[i])
          /\ Lower(Cell(Pad(rows[i]), COLUMN_G_INDEX)) = "done"
          /\ Notifiable(Cell(Pad(rows[i]), COLUMN_C_INDEX))

(* C9: for a fetched row with a past ETA and status "in review", the        *)
(* overdue rule picks nobody but the reviewer, and picks the reviewer only  *)
(* when the reviewer cell is a known code other than the ignored one; the   *)
(* assignee is never picked.                                                 *)
C9_InReviewGoesToReviewer ==
    \A i \in 1..Len(rows) :
        (PastEta(rows[i]) /\ Lower(Cell(Pad(rows[i]), COLUMN_G_INDEX)) = "in review")
            => LET reviewer == Cell(Pad(rows[i]), COLUMN_D_INDEX)
                   assignee == Cell(Pad(rows[i]), COLUMN_C_INDEX)
                   Picked(user_id) ==
                       /\ Notifiable(reviewer)
                       /\ user_id = USER_MAPPING[reviewer]
                       /\ (Notifiable(assignee) /\ assignee # reviewer)
                             => user_id # USER_MAPPING[assignee]
               IN  /\ \A e \in Candidates(RowNumber(i)) : Picked(trail[e].user_id)
                   /\ \A b \in BatchEntries(RowNumber(i)) : Picked(overdue_items[b].user_id)

(* C9 witness: the overdue rule picked the reviewer of an in-review row     *)
(* with a past ETA whose assignee could have been notified too.              *)
C9_Witness ==
    /\ pc = "done" /\ outcome = "completed"
    /\ \E i \in 1..Len(rows) :
          /\ PastEta(rows[i])
          /\ Lower(Cell(Pad(rows[i]), COLUMN_G_INDEX)) = "in review"
          /\ Notifiable(Cell(Pad(rows[i]), COLUMN_C_INDEX))
          /\ \E e \in Candidates(RowNumber(i)) :
                trail[e].user_id = USER_MAPPING[Cell(Pad(rows[i]), COLUMN_D_INDEX)]

RECURSIVE Ascending(_)
Ascending(S) ==
    IF S = {} THEN << >>
    ELSE LET least == CHOOSE x \in S : \A y \in S : x <= y
         IN  <<least>> \o Ascending(S \ {least})

RECURSIVE CommaList(_)
CommaList(numbers) ==
    IF Len(numbers) = 1 THEN ToString(numbers[1])
    ELSE ToString(numbers[1]) \o ", " \o CommaList(Tail(numbers))

RowsOf(entry) == {entry.rows[j] : j \in 1..Len(entry.rows)}

(* C11: the batched overdue message has exactly one line per recipient of    *)
(* the batch, in the order of the batch and no recipient twice; the line of *)
(* a recipient with one row is the singular phrasing naming that row, the   *)
(* line of a recipient with several rows is the plural phrasing listing all *)
(* of that recipient's row numbers in ascending order joined by ", ".       *)
C11_BatchMessageLines ==
    \A p \in OverduePosts :
        /\ Len(posts[p].parts) = Len(overdue_items)
        /\ \A i, j \in 1..Len(overdue_items) :
              i # j => overdue_items[i].user_id # overdue_items[j].user_id
        /\ \A i \in 1..Len(overdue_items) :
              posts[p].parts[i] =
                  IF Cardinality(RowsOf(overdue_items[i])) = 1
                  THEN "<@" \o overdue_items[i].user_id \o "> Please update your PQs: row "
                          \o ToString(CHOOSE n \in RowsOf(overdue_items[i]) : TRUE)
                          \o " is out of date"
                  ELSE "<@" \o overdue_items[i].user_id \o "> Please update your PQs: rows "
                          \o CommaList(Ascending(RowsOf(overdue_items[i])))
                          \o " are out of date"

(* C11 witness: a message was posted for a batch of one recipient with one   *)
(* row and another with two rows that were collected in descending order.   *)
C11_Witness ==
    /\ OverduePosts # {}
    /\ \E i, j \in 1..Len(overdue_items) :
          /\ Len(overdue_items[i].rows) = 1
          /\ Len(overdue_items[j].rows) = 2
          /\ overdue_items[j].rows[1] > overdue_items[j].rows[2]

(* A cycle fetched rows and has come to its end *)
CycleOver == pc = "done" /\ rows # << >>

(* The key was absent, or its timestamp at least the notification interval  *)
(* old, when the current cycle began.                                        *)
DueAtStart(key) ==
    \/ key \notin DOMAIN cycle.ledger
    \/ cycle.start * TimeUnit - InstantOf(cycle.ledger[key]) >= NOTIFICATION_INTERVAL

(* C12: at the end of a cycle over fetched rows, a row in review with an    *)
(* empty reviewer cell and a known, not ignored assignee has had the        *)
(* in-review notification posted to its assignee if the day is a weekday    *)
(* and its in-review key was absent or at least the interval old, and has   *)
(* had none posted if the key was younger than the interval; and the        *)
(* in-review key of a row that is not in review, or has a reviewer, is not  *)
(* in the ledger.                                                            *)
C12_InReviewRule ==
    CycleOver =>
        \A i \in 1..Len(rows) :
            LET key == InReviewKey(RowNumber(i))
                sent == PostsFor("in_review", RowNumber(i), Assignee(rows[i]))
            IN  /\ (InReviewMatch(rows[i]) /\ Weekday(cycle.start) \notin {5, 6}
                        /\ DueAtStart(key)) => sent # {}
                /\ (InReviewMatch(rows[i]) /\ ~DueAtStart(key)) => sent = {}
                /\ (\/ Lower(Cell(Pad(rows[i]), COLUMN_G_INDEX)) # "in review"
                    \/ Cell(Pad(rows[i]), COLUMN_D_INDEX) # "") => key \notin DOMAIN state

(* C13: at the end of a cycle over fetched rows, weekday or weekend, the    *)
(* key "row_<n>" of every row n whose ETA cell or flag cell is not empty is *)
(* absent from the ledger.                                                   *)
C13_UnconditionalClear ==
    CycleOver =>
        \A i \in 1..Len(rows) :
            (Cell(Pad(rows[i]), COLUMN_E_INDEX) # "" \/ Cell(Pad(rows[i]), COLUMN_F_INDEX) # "")
                => RowKey(RowNumber(i)) \notin DOMAIN state

(* C14: a cycle that fetched rows and has come to its end has evaluated     *)
(* every fetched row and has gone through the flush of the overdue batch    *)
(* (it ended as "completed"), whatever error a row, a rule or a ledger      *)
(* query raised on the way.                                                  *)
C14_ErrorIsolation ==
    CycleOver =>
        /\ outcome = "completed"
        /\ \A i \in 1..Len(rows) :
              \E e \in 1..Len(trail) :
                  trail[e].ev = "row" /\ trail[e].row_number = RowNumber(i)

(* C15: a cycle whose fetch failed ends with nothing posted, the ledger as  *)
(* it was when the cycle began and the process still running; a cycle in    *)
(* which a delivery failed ends early with the ledger as it was when the    *)
(* cycle began; and the weekday cycle that follows a cycle whose fetch      *)
(* failed posts, by its end, the notification of every row that meets a     *)
(* per-row rule and whose key is absent from the ledger.                    *)
C15_TransientIO ==
    /\ (pc = "done" /\ outcome = "HttpError")
          => (posts = << >> /\ state = cycle.ledger /\ exit_code = "running")
    /\ (\E j \in 1..Len(posts) : posts[j].result = "error")
          => (pc = "done" /\ outcome # "completed" /\ state = cycle.ledger)
    /\ (WeekdayCycleOver /\ last.outcome = "HttpError") =>
          \A i \in 1..Len(rows) :
              /\ (EtaMatch(rows[i]) /\ RowKey(RowNumber(i)) \notin DOMAIN cycle.ledger)
                    => PostsFor("eta", RowNumber(i), Assignee(rows[i])) # {}
              /\ (InReviewMatch(rows[i]) /\ InReviewKey(RowNumber(i)) \notin DOMAIN cycle.ledger)
                    => PostsFor("in_review", RowNumber(i), Assignee(rows[i])) # {}

(* C16: a single-shot run of the ETA tracker that ended with exit code 0    *)
(* ran a cycle that completed (or found no rows): a run whose fetch raised  *)
(* or whose row processing raised did not end with exit code 0.             *)
C16_SingleShotExitCode ==
    (pc = "exited" /\ env.RUN_ONCE /\ exit_code = "0")
        => outcome \in {"completed", "no_data"}

(* A required setting is missing: the webhook URL, the spreadsheet id, or   *)
(* both credential settings.                                                 *)
MissingSetting ==
    \/ ~env.SLACK_WEBHOOK_URL
    \/ ~env.SPREADSHEET_ID
    \/ (env.GOOGLE_CREDENTIALS_PATH = "" /\ env.GOOGLE_CREDENTIALS_JSON = "")

(* C17: a process started with a required setting missing is only ever at   *)
(* its start or exited with code 1; it has fetched no rows, posted nothing, *)
(* begun no cycle and not loaded the ledger (the ledger is empty whatever   *)
(* the file holds), and no step of it changes the ledger file.              *)
C17_ConfigError ==
    /\ [](MissingSetting =>
            /\ pc \in {"main", "exited"}
            /\ exit_code \in {"running", "1"}
            /\ pc = "exited" => exit_code = "1"
            /\ state = << >> /\ rows = << >> /\ posts = << >> /\ trail = << >>
            /\ cycle = NoCycle /\ last = NoLast)
    /\ [][MissingSetting => file' = file]_vars

(* C17 witness: a process with the spreadsheet id missing and a ledger file *)
(* on disk has exited with code 1.                                           *)
C17_Witness ==
    /\ ~env.SPREADSHEET_ID /\ env.SLACK_WEBHOOK_URL /\ env.GOOGLE_CREDENTIALS_JSON = "json"
    /\ file.kind = "json" /\ sheet # << >>
    /\ pc = "exited" /\ exit_code = "1"

CandidateEvents == {"eta_candidate", "overdue_candidate", "in_review_candidate"}

(* The fetched row an event of the trail is about *)
RowOf(e) == Pad(rows[trail[e].row_number - START_ROW + 1])

(* The recipients a row names by a code of the directory, in its assignee   *)
(* or its reviewer cell                                                      *)
NamedIn(row) ==
    {USER_MAPPING[code] : code \in {Cell(row, COLUMN_C_INDEX), Cell(row, COLUMN_D_INDEX)}
                                      \cap DOMAIN USER_MAPPING}

(* C18: in every cycle and under every rule, a rule picks a recipient for a *)
(* row only among the people the row names by a code of the directory, and  *)
(* never the ignored code "CC"; no notification and no batch entry is       *)
(* addressed to "CC"; and a cycle that has begun on its rows comes to its   *)
(* end with every row evaluated, whatever codes the rows hold.              *)
C18_IdentityFiltering ==
    /\ \A e \in 1..Len(trail) :
          trail[e].ev \in CandidateEvents
            => /\ trail[e].user_id # USER_MAPPING["CC"]
               /\ trail[e].user_id \in NamedIn(RowOf(e))
    /\ \A j \in 1..Len(posts) :
          posts[j].kind # "overdue" => posts[j].user_id # USER_MAPPING["CC"]
    /\ \A b \in 1..Len(overdue_items) : overdue_items[b].user_id # USER_MAPPING["CC"]
    /\ (pc = "done" /\ \E e \in 1..Len(trail) : trail[e].ev = "row")
          => /\ outcome = "completed"
             /\ Cardinality({e \in 1..Len(trail) : trail[e].ev = "row"}) = Len(rows)

(* C18 witness: a cycle has come to its end over a sheet whose first rows   *)
(* hold the ignored code and an unknown code, with a recipient picked for a *)
(* later row.                                                                *)
C18_Witness ==
    /\ pc = "done" /\ outcome = "completed"
    /\ \E i, j \in 1..Len(rows) :
          /\ i < j
          /\ Cell(Pad(rows[i]), COLUMN_C_INDEX) = "CC"
          /\ Cell(Pad(rows[j]), COLUMN_C_INDEX) = "ZZ"
    /\ \E e \in 1..Len(trail) :
          trail[e].ev \in CandidateEvents /\ trail[e].row_number > START_ROW + 3

(* The rule of that candidate event picked a recipient for row n *)
Picks(ev, n) == \E e \in 1..Len(trail) : trail[e].ev = ev /\ trail[e].row_number = n

(* C19, as the specification states it: in the cycle that has come to its   *)
(* end over the sheet holding every row of the universe there is a row for  *)
(* which the missing-ETA rule, the overdue rule and the in-review rule have *)
(* all three picked a recipient.                                             *)
C19_AllThreeRulesFire ==
    (pc = "done" /\ outcome = "completed" /\ rows = UniverseSheet)
        => \E i \in 1..Len(rows) :
              /\ Picks("eta_candidate", RowNumber(i))
              /\ Picks("overdue_candidate", RowNumber(i))
              /\ Picks("in_review_candidate", RowNumber(i))

(* C19, amended: the overdue rule picks a recipient for no row for which    *)
(* the missing-ETA rule or the in-review rule picks one (the first needs an *)
(* empty ETA, the overdue rule a past one; the in-review rule needs an      *)
(* empty reviewer, the overdue rule of a row in review a known one); the    *)
(* missing-ETA rule and the in-review rule are independent: each picks its  *)
(* recipient for exactly the rows that meet its own condition, whatever the *)
(* other did.                                                                *)
C19_RulesExclusive ==
    /\ \A e \in 1..Len(trail) :
          trail[e].ev = "overdue_candidate"
            => /\ ~Picks("eta_candidate", trail[e].row_number)
               /\ ~Picks("in_review_candidate", trail[e].row_number)
    /\ (pc = "done" /\ outcome = "completed") =>
          /\ \A e \in 1..Len(trail) :
                /\ trail[e].ev = "eta_candidate" => EtaMatch(RowOf(e))
                /\ trail[e].ev = "in_review_candidate" => InReviewMatch(RowOf(e))
          /\ Cardinality({e \in 1..Len(trail) : trail[e].ev = "eta_candidate"})
                = Cardinality({i \in 1..Len(rows) : EtaMatch(rows[i])})
          /\ Cardinality({e \in 1..Len(trail) : trail[e].ev = "in_review_candidate"})
                = Cardinality({i \in 1..Len(rows) : InReviewMatch(rows[i])})

(* C19 witness: in one cycle the missing-ETA rule and the in-review rule    *)
(* both picked a recipient for one row, and the overdue rule for another.   *)
C19_Witness ==
    /\ pc = "done" /\ outcome = "completed"
    /\ \E i \in 1..Len(rows) :
          Picks("eta_candidate", RowNumber(i)) /\ Picks("in_review_candidate", RowNumber(i))
    /\ \E e \in 1..Len(trail) : trail[e].ev = "overdue_candidate"

-----------------------------------------------------------------------------
(* C21: an interrupt at any point of continuous mode ends the process with  *)
(* exit code 0, and the ledger file it leaves is the file as it was before  *)
(* the interrupted step or the complete JSON of the ledger in memory: never *)
(* a file cut short.                                                         *)
C21_Cancellation ==
    [][Interrupt => /\ pc' = "exited"
                    /\ exit_code' = "0"
                    /\ (file' = file \/ file' = json_dump(state'))]_vars

-----------------------------------------------------------------------------
Date(y, m, d) == [ok |-> TRUE, y |-> y, m |-> m, d |-> d]

(* The ETA cell of the i-th fetched row, as _process_row reads it *)
EtaOf(i) == Cell(Pad(rows[i]), COLUMN_E_INDEX)

(* _process_row was entered for the row in the current cycle *)
RowSeen(row_number) ==
    \E e \in 1..Len(trail) : trail[e].ev = "row" /\ trail[e].row_number = row_number

(* The in-review rule left an event for the row: a candidate or a clear *)
InReviewSeen(row_number) ==
    \E e \in 1..Len(trail) : trail[e].key = InReviewKey(row_number)

-----------------------------------------------------------------------------
(* The state file holds no stamp of the weekly reminder, or one that is a   *)
(* week old or older at time t                                               *)
WeeklyDue(t) ==
    \/ file.kind # "json"
    \/ \A m \in file.members : m[1] # weekly_reminder_key
    \/ \E m \in file.members :
          /\ m[1] = weekly_reminder_key
          /\ t * TimeUnit - InstantOf(m[2]) >= 604800

-----------------------------------------------------------------------------
(* C24: when a run of the stale-item digest has ended less than the         *)
(* notification interval after the run before it began, on the same rows,   *)
(* it has sent nothing to a recipient whom that run notified.               *)
C24_StaleDigestDedup ==
    ( /\ pc = "exited"
      /\ outcome = "completed"
      /\ last.outcome = "completed"
      /\ (cycle.start - last.start) * TimeUnit < NOTIFICATION_INTERVAL )
        => \A i \in 1..Len(posts), j \in 1..Len(last.posts) :
              last.posts[j].result = "ok" => posts[i].user_id # last.posts[j].user_id

-----------------------------------------------------------------------------
(* The row with empty strings added up to n cells *)
PaddedTo(row, n) ==
    [i \in 1..(IF Len(row) > n THEN Len(row) ELSE n) |-> IF i <= Len(row) THEN row[i] ELSE ""]

(* C25: whatever the length of the row, the turn of the ETA tracker's loop  *)
(* for it leaves the ledger, the ledger file, the overdue batch and the     *)
(* POSTs that the rules leave for the row padded with empty strings to      *)
(* seven cells, and raises nothing; and a run of the digest sends for its   *)
(* rows the messages it sends for the rows padded to three cells, and ends  *)
(* without an error of its own.                                              *)
C25_RaggedRows ==
    /\ [][ProcessRow =>
            \E result1 \in WebhookResults, result3 \in WebhookResults :
                LET full == PaddedTo(rows[idx], COLUMN_G_INDEX + 1)
                    c0 == Ctx(state, overdue_items, posts,
                              Append(trail, Event("row", "", RowNumber(idx), "")), FALSE)
                    c1 == EtaRule(c0, full, RowNumber(idx), is_weekend, now, result1)
                    c2 == OverdueRule(c1, full, RowNumber(idx), should_notify_overdue, now)
                    c3 == InReviewRule(c2, full, RowNumber(idx), is_weekend, now, result3)
                IN  /\ state' = c3.state
                    /\ file' = (IF c3.state # state THEN json_dump(c3.state) ELSE file)
                    /\ overdue_items' = c3.items
                    /\ posts' = c3.posts
                    /\ trail' = c3.trail
                    /\ ~c3.raised
                    /\ pc' = "rows"
         ]_vars
    /\ [][(QUMain /\ outcome' # "HttpError") =>
            LET full == [i \in 1..Len(sheet) |-> PaddedTo(sheet[i], QU_COLUMN_C_INDEX + 1)]
                counts == stale_counts(<< >>, full, now)
            IN  /\ outcome' \in {"completed", "no_data"}
                /\ exit_code' = "0"
                /\ Len(posts') = Len(counts)
                /\ \A i \in 1..Len(counts) :
                      /\ posts'[i].user_id = USER_MAPPING[counts[i].initials]
                      /\ posts'[i].parts = <<StaleMessage(counts[i].count)>>
         ]_vars

(* A cycle is over that went through a row of three cells and removed the   *)
(* row's in-review key from the ledger                                       *)
C25_Witness ==
    /\ pc = "done"
    /\ outcome = "completed"
    /\ Len(rows) = 1
    /\ Len(rows[1]) = COLUMN_C_INDEX + 1
    /\ RowSeen(RowNumber(1))
    /\ cleared # {}

-----------------------------------------------------------------------------
(* Entries of _process_row in the current cycle *)
RowEvents == {e \in 1..Len(trail) : trail[e].ev = "row"}

-----------------------------------------------------------------------------
(* A weekday cycle has fetched the sheet and come to its end *)
WeekdayCycleFetched == WeekdayCycleOver /\ outcome # "HttpError"

(* C27: if weekday cycles that fetch the sheet keep coming, the assignee of *)
(* the first row, which meets the missing-ETA rule throughout, is at some   *)
(* time sent a missing-ETA notification for it that succeeds.               *)
C27_RenotificationLiveness ==
    ([]<>WeekdayCycleFetched)
        => <>(\E i \in 1..Len(posts) :
                 /\ posts[i].kind = "eta"
                 /\ posts[i].row_number = START_ROW
                 /\ Success(posts[i].result))

-----------------------------------------------------------------------------
(* Days from 2025-12-08 to the date, negative for a date before it *)
DaysFromEpoch(date) == toordinal(date) - toordinal(Date(2025, 12, 8))

(* C28: a row is taken for the overdue batch by the overdue rule, or stands *)
(* in the batch, only if its ETA text has a date and that date is before    *)
(* the date the cycle began on at UTC-8; a row whose date is that day or a  *)
(* later one is never taken, at whatever hour the cycle runs.               *)
C28_OverdueBoundary ==
    \A i \in 1..Len(rows) :
        LET date == ParseDate(EtaOf(i))
            taken == Candidates(RowNumber(i)) # {} \/ BatchEntries(RowNumber(i)) # {}
        IN  /\ taken => (date.ok /\ DaysFromEpoch(date) < PacificDay(cycle.start))
            /\ (date.ok /\ DaysFromEpoch(date) >= PacificDay(cycle.start)) => ~taken

(* A cycle begun on Sunday 2025-12-07 16:00 at UTC-8, which is Monday in    *)
(* UTC, has completed: it took the row dated 5 December for the batch and   *)
(* did not take the row dated 7 December.                                    *)
C28_Witness ==
    /\ pc = "done"
    /\ outcome = "completed"
    /\ cycle.start = 0
    /\ Len(rows) = 2
    /\ EtaOf(1) = "2025-12-05" /\ Candidates(RowNumber(1)) # {}
    /\ EtaOf(2) = "12/07/2025" /\ Candidates(RowNumber(2)) = {}
    /\ RowSeen(RowNumber(2))

-----------------------------------------------------------------------------
(* The fetched rows of the digest whose first-listed initials are u and     *)
(* whose date is older than the threshold was when the run began            *)
StaleRowsOf(u) ==
    {i \in 1..Len(rows) :
        LET row == PaddedTo(rows[i], QU_COLUMN_C_INDEX + 1)
            date_obj == parse_date(Strip(row[QU_COLUMN_C_INDEX + 1]))
        IN  /\ get_first_initials(Strip(row[QU_COLUMN_B_INDEX + 1])) = u
            /\ date_obj.ok
            /\ IsStale(date_obj, cycle.start)}

(* The identities the digest may write to *)
DigestIdentities == DOMAIN USER_MAPPING \ IGNORED_INITIALS

(* C29: when a run of the digest has fetched its rows and ended, it has     *)
(* attempted one direct message for every known, not ignored identity with  *)
(* at least one stale row, whose text gives the number of those rows, and   *)
(* no other message, whether the attempts before it succeeded or failed.    *)
C29_StaleDigest ==
    (pc = "exited" /\ outcome = "completed") =>
        /\ \A u \in DigestIdentities :
              LET dms == {p \in 1..Len(posts) : posts[p].user_id = USER_MAPPING[u]}
              IN  IF StaleRowsOf(u) # {}
                  THEN /\ Cardinality(dms) = 1
                       /\ \A p \in dms :
                             posts[p].parts = <<StaleMessage(Cardinality(StaleRowsOf(u)))>>
                  ELSE dms = {}
        /\ \A p \in 1..Len(posts) :
              \E u \in DigestIdentities : posts[p].user_id = USER_MAPPING[u]

(* A run has ended in which the message to one identity failed and the      *)
(* message to the next was attempted and succeeded                           *)
C29_Witness ==
    /\ pc = "exited"
    /\ outcome = "completed"
    /\ Len(posts) = 2
    /\ posts[1].result = "SlackApiError"
    /\ posts[2].result = "ok"
    /\ posts[1].user_id # posts[2].user_id

-----------------------------------------------------------------------------
(* C30: in the overdue batch no row number stands twice, neither in one     *)
(* recipient's list nor in two; no recipient has two lists; every list is   *)
(* in ascending order of the rows; and the list a row stands in is its      *)
(* reviewer's if its status is "in review" and its assignee's otherwise.    *)
C30_BatchRowsUnique ==
    /\ \A i \in 1..Len(overdue_items), j \in 1..Len(overdue_items) :
          i # j => overdue_items[i].user_id # overdue_items[j].user_id
    /\ \A i \in 1..Len(overdue_items) :
          \A j \in 1..Len(overdue_items[i].rows), k \in 1..Len(overdue_items[i].rows) :
              j < k => overdue_items[i].rows[j] < overdue_items[i].rows[k]
    /\ \A n \in 1..Len(rows) :
          /\ Cardinality(BatchEntries(RowNumber(n))) <= 1
          /\ \A i \in BatchEntries(RowNumber(n)) :
                overdue_items[i].user_id =
                    USER_MAPPING[IF Lower(Cell(Pad(rows[n]), COLUMN_G_INDEX)) = "in review"
                                 THEN Cell(Pad(rows[n]), COLUMN_D_INDEX)
                                 ELSE Cell(Pad(rows[n]), COLUMN_C_INDEX)]

(* The batch holds one list of two rows: a row in review whose reviewer is  *)
(* DI and an open row whose assignee is DI                                   *)
C30_Witness ==
    /\ Len(overdue_items) = 1
    /\ overdue_items[1].user_id = USER_MAPPING["DI"]
    /\ Len(overdue_items[1].rows) = 2
    /\ \E n \in 1..Len(rows) : Lower(Cell(Pad(rows[n]), COLUMN_G_INDEX)) = "in review"
    /\ \E n \in 1..Len(rows) : Lower(Cell(Pad(rows[n]), COLUMN_G_INDEX)) = "open"

-----------------------------------------------------------------------------
(* The age of "overdue_batch" in the ledger a cycle began with, at time t *)
BatchAge(t) == t * TimeUnit - InstantOf(cycle.ledger[overdue_batch_key])

InWindow ==
    /\ overdue_batch_key \in DOMAIN cycle.ledger
    /\ BatchAge(cycle.start) < OVERDUE_NOTIFICATION_INTERVAL

-----------------------------------------------------------------------------
(* The timestamps a ledger holds for "overdue_batch": one or none *)
BatchStamp(st) == {st[k] : k \in DOMAIN st \cap {overdue_batch_key}}

(* The first half of C32 on its own: a cycle that went through its batch    *)
(* block with the gate open and an empty batch posted no overdue message    *)
(* and has "overdue_batch" as the ledger had it when the cycle began.       *)
C32_EmptyBatchFrame ==
    (pc = "done" /\ outcome = "completed" /\ should_notify_overdue /\ overdue_items = << >>)
        => /\ OverduePosts = {}
           /\ BatchStamp(state) = BatchStamp(cycle.ledger)

(* C32: a cycle with the overdue gate open and an empty batch posts no      *)
(* overdue message and leaves "overdue_batch" as it was; and a weekday      *)
(* cycle that comes after a cycle that posted no overdue message, begins    *)
(* with no "overdue_batch" in the ledger and fetches a row the overdue rule *)
(* has a recipient for has posted the overdue batch by its end.             *)
C32_EmptyBatchKeepsGate ==
    /\ C32_EmptyBatchFrame
    /\ ( /\ WeekdayCycleOver
         /\ last.start >= 0
         /\ \A j \in 1..Len(last.posts) : last.posts[j].kind # "overdue"
         /\ overdue_batch_key \notin DOMAIN cycle.ledger
         /\ \E i \in 1..Len(rows) : OverdueInitials(Pad(rows[i]), cycle.start) # "" )
       => OverduePosts # {}

-----------------------------------------------------------------------------
(* The timestamps a ledger holds for a key: one or none *)
StampOf(st, key) == {st[k] : k \in DOMAIN st \cap {key}}

EtaPosts(row_number) ==
    {j \in 1..Len(posts) : posts[j].kind = "eta" /\ posts[j].row_number = row_number}

EmptyEtaAndFlag(row) ==
    Cell(Pad(row), COLUMN_E_INDEX) = "" /\ Cell(Pad(row), COLUMN_F_INDEX) = ""

(* C33: in a cycle, the key "row_<n>" of a row whose ETA and flag cells are *)
(* empty stays in the ledger with the timestamp it had, whoever the         *)
(* assignee cell names now (a known identity, an unknown or ignored code,   *)
(* nobody), unless the cycle itself marked it; a key that left the ledger   *)
(* belongs to a processed row with an ETA or a flag; and no missing-ETA     *)
(* notification is posted for a row whose key was younger than the          *)
(* interval when the cycle began.                                            *)
C33_KeyFollowsRow ==
    pc # "idle" =>
        \A i \in 1..Len(rows) :
            LET key == RowKey(RowNumber(i))
            IN  /\ EmptyEtaAndFlag(rows[i])
                    => (StampOf(state, key) = StampOf(cycle.ledger, key) \/ Marks(key) # {})
                /\ (key \in DOMAIN cycle.ledger /\ key \notin DOMAIN state)
                    => (i < idx /\ ~EmptyEtaAndFlag(rows[i]))
                /\ EtaPosts(RowNumber(i)) # {} => DueAtStart(key)

(* C33 witness: a cycle processed a row with empty ETA and flag cells and a *)
(* known assignee, whose key was in the ledger from an earlier notification *)
(* less than the interval before; the key is there as it was and nothing    *)
(* was posted for the row.                                                   *)
C33_Witness ==
    /\ CycleOver /\ outcome = "completed"
    /\ EtaMatch(rows[1])
    /\ RowKey(START_ROW) \in DOMAIN cycle.ledger
    /\ ~DueAtStart(RowKey(START_ROW))
    /\ StampOf(state, RowKey(START_ROW)) = StampOf(cycle.ledger, RowKey(START_ROW))
    /\ EtaPosts(START_ROW) = {}

====
